---- MODULE Spec2Model ----
(***************************************************************************)
(* gst-log-viewer: the log line parser (src/src/parser/mod.rs), the        *)
(* session store (src/src/models/mod.rs), the ingestion path               *)
(* (src/src/handlers/upload.rs) and the query handlers                     *)
(* (src/src/handlers/query.rs, timeline.rs, options.rs) as a state machine.*)
(*                                                                         *)
(* Conventions.  Option<T> is a sequence of length at most one             *)
(* (None == <<>>, Some(x) == <<x>>).  Result<T, E> is a record with a      *)
(* field ok.  Text is a TLA+ string; a character is a string of length 1.  *)
(***************************************************************************)
EXTENDS Integers, Sequences, FiniteSets, TLC

None == <<>>
Some(x) == <<x>>
IsSome(o) == o /= <<>>
Unwrap(o) == o[1]

Ok(v) == [ok |-> TRUE, val |-> v]
Err(e) == [ok |-> FALSE, err |-> e]

Min2(a, b) == IF a <= b THEN a ELSE b
Max2(a, b) == IF a >= b THEN a ELSE b

(***************************************************************************)
(* Text primitives of the Rust standard library used by the program.       *)
(***************************************************************************)
CharAt(s, i) == SubSeq(s, i, i)

\* First index >= from at which character c occurs in s, 0 when there is none.
IndexFrom(s, c, from) ==
    LET hits == {i \in from..Len(s) : CharAt(s, i) = c} IN
    IF hits = {} THEN 0 ELSE CHOOSE i \in hits : \A j \in hits : i <= j

\* str::splitn(n, d) for n >= 1: at most n parts, the last one the remainder.
RECURSIVE SplitN(_, _, _)
SplitN(s, d, n) ==
    LET i == IndexFrom(s, d, 1) IN
    IF n <= 1 \/ i = 0 THEN << s >>
    ELSE << SubSeq(s, 1, i - 1) >> \o SplitN(SubSeq(s, i + 1, Len(s)), d, n - 1)

\* str::split(d): every separator splits, empty parts are kept.
Split(s, d) == SplitN(s, d, Len(s) + 1)

\* A join that leaves the empty tokens out.
RECURSIVE JoinNonEmpty(_, _)
JoinNonEmpty(toks, sep) ==
    IF toks = << >> THEN ""
    ELSE IF toks[1] = "" THEN JoinNonEmpty(Tail(toks), sep)
    ELSE LET rest == JoinNonEmpty(Tail(toks), sep) IN
         IF rest = "" THEN toks[1] ELSE toks[1] \o sep \o rest

\* itertools::join(it, sep)
RECURSIVE Join(_, _)
Join(toks, sep) ==
    IF toks = << >> THEN ""
    ELSE IF Len(toks) = 1 THEN toks[1]
    ELSE toks[1] \o sep \o Join(Tail(toks), sep)

\* Iterator::skip_while(|x| x.is_empty()): drops the leading empty tokens only.
RECURSIVE SkipEmpty(_)
SkipEmpty(toks) ==
    IF toks /= << >> /\ toks[1] = "" THEN SkipEmpty(Tail(toks)) ELSE toks

\* str::trim_start_matches(c) and str::trim_end_matches(c): every leading
\* (trailing) occurrence of c is removed.
RECURSIVE TrimStartMatches(_, _)
TrimStartMatches(s, c) ==
    IF Len(s) > 0 /\ CharAt(s, 1) = c
    THEN TrimStartMatches(SubSeq(s, 2, Len(s)), c) ELSE s

RECURSIVE TrimEndMatches(_, _)
TrimEndMatches(s, c) ==
    IF Len(s) > 0 /\ CharAt(s, Len(s)) = c
    THEN TrimEndMatches(SubSeq(s, 1, Len(s) - 1), c) ELSE s

\* str::trim(): leading and trailing white space removed.
WhiteSpace == {" ", "\t", "\n", "\r"}

RECURSIVE Trim(_)
Trim(s) ==
    IF Len(s) > 0 /\ CharAt(s, 1) \in WhiteSpace THEN Trim(SubSeq(s, 2, Len(s)))
    ELSE IF Len(s) > 0 /\ CharAt(s, Len(s)) \in WhiteSpace
         THEN Trim(SubSeq(s, 1, Len(s) - 1))
    ELSE s

Digits == {"0", "1", "2", "3", "4", "5", "6", "7", "8", "9"}

DigitVal(c) ==
    CASE c = "0" -> 0 [] c = "1" -> 1 [] c = "2" -> 2 [] c = "3" -> 3
      [] c = "4" -> 4 [] c = "5" -> 5 [] c = "6" -> 6 [] c = "7" -> 7
      [] c = "8" -> 8 [] c = "9" -> 9

AllDigits(s) == \A i \in 1..Len(s) : CharAt(s, i) \in Digits

RECURSIVE DigitsValue(_, _)
DigitsValue(s, acc) ==
    IF s = "" THEN acc
    ELSE DigitsValue(SubSeq(s, 2, Len(s)), acc * 10 + DigitVal(CharAt(s, 1)))

\* Decimal digit strings of equal length compared as numbers.
RECURSIVE DigitsLeq(_, _)
DigitsLeq(a, b) ==
    IF a = "" THEN TRUE
    ELSE IF DigitVal(CharAt(a, 1)) < DigitVal(CharAt(b, 1)) THEN TRUE
    ELSE IF DigitVal(CharAt(a, 1)) > DigitVal(CharAt(b, 1)) THEN FALSE
    ELSE DigitsLeq(SubSeq(a, 2, Len(a)), SubSeq(b, 2, Len(b)))

\* The largest values of u32 and u64, as decimal text (the model's integers
\* are narrower than u64, so the range test is made on the digits).
U32_MAX == "4294967295"
U64_MAX == "18446744073709551615"

FitsIn(body, max) ==
    LET sig == TrimStartMatches(body, "0") IN
    \/ Len(sig) < Len(max)
    \/ Len(sig) = Len(max) /\ DigitsLeq(sig, max)

\* <unsigned integer>::from_str: an optional '+', then one or more decimal
\* digits; the value must fit the type (max = its largest value).
ParseUInt(s, max) ==
    LET body == IF Len(s) > 0 /\ CharAt(s, 1) = "+" THEN SubSeq(s, 2, Len(s)) ELSE s
    IN  IF body = "" \/ ~AllDigits(body) \/ ~FitsIn(body, max) THEN Err("ParseIntError")
        ELSE Ok(DigitsValue(body, 0))

(***************************************************************************)
(* u64 arithmetic.  A u64 is four limbs of 16 bits, least significant      *)
(* first.  A computation carries its value modulo 2^64 and whether any     *)
(* operation so far had an exact result beyond it.  Each operation takes   *)
(* its operands from one-element sets, which fixes their values before     *)
(* the limbs are worked on.                                                *)
(***************************************************************************)
LIMB == 65536

u64(l1, l2, l3, l4) == << l1, l2, l3, l4 >>

\* A u64 as the start of a computation.
exact(a) == [val |-> a, overflow |-> FALSE]

\* r * k for 0 <= k < 2^15
u64_mul(r, k) ==
    CHOOSE product \in
        {LET p1 == x.val[1] * k
             p2 == x.val[2] * k + p1 \div LIMB
             p3 == x.val[3] * k + p2 \div LIMB
             p4 == x.val[4] * k + p3 \div LIMB
         IN [val |-> u64(p1 % LIMB, p2 % LIMB, p3 % LIMB, p4 % LIMB),
             overflow |-> x.overflow \/ p4 \div LIMB > 0] : x \in {r}} : TRUE

u64_add(r, t) ==
    CHOOSE sum \in
        {LET s1 == x.val[1] + y.val[1]
             s2 == x.val[2] + y.val[2] + s1 \div LIMB
             s3 == x.val[3] + y.val[3] + s2 \div LIMB
             s4 == x.val[4] + y.val[4] + s3 \div LIMB
         IN [val |-> u64(s1 % LIMB, s2 % LIMB, s3 % LIMB, s4 % LIMB),
             overflow |-> x.overflow \/ y.overflow \/ s4 \div LIMB > 0] :
                x \in {r}, y \in {t}} : TRUE

\* The value of the decimal digits sig without its 4 * (k - 1) last ones,
\* taken four digits at a time.
RECURSIVE u64_from_chunks(_, _)
u64_from_chunks(sig, k) ==
    IF 4 * (k - 1) >= Len(sig) THEN exact(u64(0, 0, 0, 0))
    ELSE u64_add(u64_mul(u64_from_chunks(sig, k + 1), 10000),
                 exact(u64(DigitsValue(SubSeq(sig, Max2(1, Len(sig) - 4 * k + 1),
                                              Len(sig) - 4 * (k - 1)), 0), 0, 0, 0)))

\* The value of a decimal text that fits u64.
u64_from_digits(body) ==
    CHOOSE value \in
        {u64_from_chunks(sig, 1).val : sig \in {TrimStartMatches(body, "0")}} : TRUE

\* u64::from_str: the limbs of the value, or an error.
ParseU64(s) ==
    CHOOSE result \in
        {LET body == IF Len(x) > 0 /\ CharAt(x, 1) = "+" THEN SubSeq(x, 2, Len(x)) ELSE x
         IN  IF body = "" \/ ~AllDigits(body) \/ ~FitsIn(body, U64_MAX)
             THEN Err("ParseIntError")
             ELSE Ok(u64_from_digits(body)) : x \in {s}} : TRUE

\* Whether the model's integers hold the u64 a.
IsSmall(a) == a[4] = 0 /\ a[3] = 0 /\ a[2] < 32768

\* The u64 a as an integer of the model.  The inputs of the model keep the
\* timestamps that are stored below 2^31 ns; a larger one has no value here.
u64_to_int(a) ==
    IF IsSmall(a) THEN a[2] * LIMB + a[1]
    ELSE CHOOSE n \in {} : TRUE

(***************************************************************************)
(* parser/mod.rs: one log line to an Entry or a ParsingError.              *)
(***************************************************************************)
ParsingError(kind, what, field) == [kind |-> kind, what |-> what, field |-> field]

\* A panic that unwinds out of the function, in the place of its result.
Panic(message) == [ok |-> FALSE, err |-> [kind |-> "panic", what |-> message, field |-> ""]]
IsPanic(r) == ~r.ok /\ r.err.kind = "panic"

\* gstreamer::DebugLevel, the variants parse_debug_level produces.
DebugLevel == {"DebugLevel::Error", "DebugLevel::Warning", "DebugLevel::Fixme",
               "DebugLevel::Info", "DebugLevel::Debug", "DebugLevel::Log",
               "DebugLevel::Trace", "DebugLevel::Memdump"}

\* A level table that spells the warning level WARNING.
parse_debug_level_long_warning(s) ==
    CASE s = "ERROR"   -> Ok("DebugLevel::Error")
      [] s = "WARNING" -> Ok("DebugLevel::Warning")
      [] s = "FIXME"   -> Ok("DebugLevel::Fixme")
      [] s = "INFO"    -> Ok("DebugLevel::Info")
      [] s = "DEBUG"   -> Ok("DebugLevel::Debug")
      [] s = "LOG"     -> Ok("DebugLevel::Log")
      [] s = "TRACE"   -> Ok("DebugLevel::Trace")
      [] s = "MEMDUMP" -> Ok("DebugLevel::Memdump")
      [] OTHER         -> Err(ParsingError("InvalidDebugLevel", s, ""))

parse_debug_level(s) ==
    CASE s = "ERROR"   -> Ok("DebugLevel::Error")
      [] s = "WARN"    -> Ok("DebugLevel::Warning")
      [] s = "FIXME"   -> Ok("DebugLevel::Fixme")
      [] s = "INFO"    -> Ok("DebugLevel::Info")
      [] s = "DEBUG"   -> Ok("DebugLevel::Debug")
      [] s = "LOG"     -> Ok("DebugLevel::Log")
      [] s = "TRACE"   -> Ok("DebugLevel::Trace")
      [] s = "MEMDUMP" -> Ok("DebugLevel::Memdump")
      [] OTHER         -> Err(ParsingError("InvalidDebugLevel", s, ""))

\* format!("{:?}", level): the derived Debug rendering is the variant's name.
\* The names of the levels as a log line prints them.
DebugFmtAsPrinted(level) ==
    CASE level = "DebugLevel::Error"   -> "ERROR"
      [] level = "DebugLevel::Warning" -> "WARN"
      [] level = "DebugLevel::Fixme"   -> "FIXME"
      [] level = "DebugLevel::Info"    -> "INFO"
      [] level = "DebugLevel::Debug"   -> "DEBUG"
      [] level = "DebugLevel::Log"     -> "LOG"
      [] level = "DebugLevel::Trace"   -> "TRACE"
      [] level = "DebugLevel::Memdump" -> "MEMDUMP"

DebugFmt(level) ==
    CASE level = "DebugLevel::Error"   -> "Error"
      [] level = "DebugLevel::Warning" -> "Warning"
      [] level = "DebugLevel::Fixme"   -> "Fixme"
      [] level = "DebugLevel::Info"    -> "Info"
      [] level = "DebugLevel::Debug"   -> "Debug"
      [] level = "DebugLevel::Log"     -> "Log"
      [] level = "DebugLevel::Trace"   -> "Trace"
      [] level = "DebugLevel::Memdump" -> "Memdump"

NANOS_PER_SECOND == 1000000000

\* h * 60 * 60 + m * 60 + secs, ClockTime::from_seconds of it (times
\* 1_000_000_000 = 31250 * 32000) and the addition of
\* ClockTime::from_nseconds(subsecs) (parser 154): the nanoseconds modulo
\* 2^64 and whether any of the operations overflowed.
to_clock_time(h, m, secs, subsecs) ==
    LET seconds == u64_add(u64_add(u64_mul(u64_mul(exact(h), 60), 60),
                                   u64_mul(exact(m), 60)),
                           exact(secs))
        from_seconds == u64_mul(u64_mul(seconds, 31250), 32000)
    IN u64_add(from_seconds, exact(subsecs))

\* parse_time: "H:MM:SS.fffffffff" to nanoseconds.  splitn never yields an
\* empty iterator, so the Hour MissingToken branch cannot be taken.  An
\* overflow of the last line panics where it is detected (checks: a build
\* with overflow checks, or a ClockTime::from_seconds that multiplies
\* checked) and wraps around otherwise.
parse_time(ts, checks) ==
    LET split == SplitN(ts, ":", 3)
        h     == ParseU64(split[1])
    IN
    IF ~h.ok THEN Err(ParsingError("InvalidTimestamp", ts, "Hour"))
    ELSE IF Len(split) < 2 THEN Err(ParsingError("MissingToken", "Timestamp", "Minute"))
    ELSE LET m == ParseU64(split[2]) IN
    IF ~m.ok THEN Err(ParsingError("InvalidTimestamp", ts, "Minute"))
    ELSE IF Len(split) < 3 THEN Err(ParsingError("MissingToken", "Timestamp", "Second"))
    ELSE LET split2 == SplitN(split[3], ".", 2)
             secs   == ParseU64(split2[1]) IN
    IF ~secs.ok THEN Err(ParsingError("InvalidTimestamp", ts, "Second"))
    ELSE IF Len(split2) < 2 THEN Err(ParsingError("MissingToken", "Timestamp", "SubSecond"))
    ELSE LET subsecs == ParseU64(split2[2]) IN
    IF ~subsecs.ok THEN Err(ParsingError("InvalidTimestamp", ts, "SubSecond"))
    ELSE CHOOSE result \in
            {IF t.overflow /\ checks THEN Panic("arithmetic overflow")
             ELSE Ok(u64_to_int(t.val)) :
                t \in {to_clock_time(h.val, m.val, secs.val, subsecs.val)}} : TRUE

\* split_location: "file:line:function:<object>" (the object part is the
\* remainder after the third colon).
split_location(location) ==
    LET split == SplitN(location, ":", 4) IN
    IF Len(split) < 2 THEN Err(ParsingError("MissingToken", "LineNumber", ""))
    ELSE LET line == ParseUInt(split[2], U32_MAX) IN
    IF ~line.ok THEN Err(ParsingError("InvalidLineNumber", split[2], ""))
    ELSE IF Len(split) < 3 THEN Err(ParsingError("MissingToken", "Function", ""))
    ELSE IF Len(split) < 4 THEN Err(ParsingError("MissingToken", "Object", ""))
    ELSE LET object == split[4]
             object_name ==
                 IF object /= ""
                 THEN Some(TrimEndMatches(TrimStartMatches(object, "<"), ">"))
                 ELSE None
    IN Ok([file |-> split[1], line |-> line.val, function |-> split[3],
           object |-> object_name])

\* The escape character (0x1b) that starts an ANSI colour sequence; the
\* model writes it as a character no log line otherwise uses.
ESC == "~"

\* Length of the match of \x1b\[[0-9;]*m starting at index i of s, 0 if none.
RECURSIVE ColorRunEnd(_, _)
ColorRunEnd(s, j) ==
    IF j <= Len(s) /\ CharAt(s, j) \in (Digits \cup {";"})
    THEN ColorRunEnd(s, j + 1) ELSE j

ColorMatchLen(s, i) ==
    IF i + 1 <= Len(s) /\ CharAt(s, i) = ESC /\ CharAt(s, i + 1) = "["
    THEN LET j == ColorRunEnd(s, i + 2) IN
         IF j <= Len(s) /\ CharAt(s, j) = "m" THEN j - i + 1 ELSE 0
    ELSE 0

\* The characters piece(lo), ..., piece(hi) concatenated.
RECURSIVE ConcatRange(_, _, _)
ConcatRange(piece(_), lo, hi) ==
    IF lo > hi THEN ""
    ELSE IF lo = hi THEN piece(lo)
    ELSE LET mid == (lo + hi) \div 2 IN
         ConcatRange(piece, lo, mid) \o ConcatRange(piece, mid + 1, hi)

\* RE.replace_all(line, ""): every colour sequence removed.  A match starts
\* at an escape character and holds none, so matches never overlap and a
\* character is dropped iff some match covers it.
StripColor(s) ==
    LET starts     == {j \in 1..Len(s) : CharAt(s, j) = ESC /\ ColorMatchLen(s, j) > 0}
        covered(i) == \E j \in starts : j <= i /\ i < j + ColorMatchLen(s, j)
        piece(i)   == IF covered(i) THEN "" ELSE CharAt(s, i)
    IN IF starts = {} THEN s ELSE ConcatRange(piece, 1, Len(s))

\* Entry::new
Entry_new(raw, checks) ==
    LET line == StripColor(raw)
        it0  == Split(line, " ")
        ts   == parse_time(it0[1], checks)
        it1  == SkipEmpty(Tail(it0))
    IN
    IF ~ts.ok THEN ts
    ELSE IF it1 = << >> THEN Err(ParsingError("MissingToken", "PID", ""))
    ELSE LET pid == ParseUInt(it1[1], U32_MAX)
             it2 == SkipEmpty(Tail(it1)) IN
    IF ~pid.ok THEN Err(ParsingError("InvalidPID", it1[1], ""))
    ELSE IF it2 = << >> THEN Err(ParsingError("MissingToken", "Thread", ""))
    ELSE LET thread == it2[1]
             it3    == SkipEmpty(Tail(it2)) IN
    IF it3 = << >> THEN Err(ParsingError("MissingToken", "Level", ""))
    ELSE LET level == parse_debug_level(it3[1])
             it4   == SkipEmpty(Tail(it3)) IN
    IF ~level.ok THEN level
    ELSE IF it4 = << >> THEN Err(ParsingError("MissingToken", "Category", ""))
    ELSE LET category == it4[1]
             it5      == SkipEmpty(Tail(it4)) IN
    IF it5 = << >> THEN Err(ParsingError("MissingLocation", "", ""))
    ELSE LET loc == split_location(it5[1]) IN
    IF ~loc.ok THEN loc
    ELSE Ok([ts |-> ts.val, pid |-> pid.val, thread |-> thread,
             level |-> level.val, category |-> category,
             file |-> loc.val.file, line |-> loc.val.line,
             function |-> loc.val.function, object |-> loc.val.object,
             message |-> Join(Tail(it5), " ")])

\* ParserIterator::next over all lines, collected (parser 289-310): the
\* entries of the lines that parse, in input order; a line that fails with
\* a ParsingError is skipped; a panic in Entry::new unwinds through next()
\* and collect(), and no sequence is produced.
RECURSIVE parse(_, _)
parse(lines, checks) ==
    IF lines = << >> THEN Ok(<< >>)
    ELSE LET r    == Entry_new(lines[1], checks)
             rest == parse(Tail(lines), checks) IN
         IF IsPanic(r) THEN r
         ELSE IF ~rest.ok THEN rest
         ELSE IF r.ok THEN Ok(<< r.val >> \o rest.val)
         ELSE rest

(***************************************************************************)
(* regex::Regex as the handlers use it: Regex::new(p) compiles or fails,   *)
(* is_match searches the text.  The model covers the patterns made of      *)
(* literal characters and '.', with an optional leading '^' and trailing   *)
(* '$', and the patterns that fail to compile because a group or a class   *)
(* is left open or a repetition has nothing to repeat.                     *)
(***************************************************************************)
RegexMeta == {"(", ")", "[", "]", "*", "+", "?", "{", "}", "|", "\\"}

RECURSIVE CountChar(_, _)
CountChar(s, c) ==
    IF s = "" THEN 0
    ELSE (IF CharAt(s, 1) = c THEN 1 ELSE 0) + CountChar(SubSeq(s, 2, Len(s)), c)

\* Regex::new(p).is_err() for the patterns of the model.
RegexSyntaxError(p) ==
    \/ CountChar(p, "(") /= CountChar(p, ")")
    \/ CountChar(p, "[") /= CountChar(p, "]")
    \/ Len(p) > 0 /\ CharAt(p, 1) \in {"*", "+", "?"}

\* The patterns whose matching the model defines.
RegexPlain(p) ==
    LET a == IF Len(p) > 0 /\ CharAt(p, 1) = "^" THEN SubSeq(p, 2, Len(p)) ELSE p
        b == IF Len(a) > 0 /\ CharAt(a, Len(a)) = "$" THEN SubSeq(a, 1, Len(a) - 1) ELSE a
    IN \A i \in 1..Len(b) : CharAt(b, i) \notin (RegexMeta \cup {"^", "$"})

Regex_new(p) == IF RegexSyntaxError(p) THEN Err("regex::Error::Syntax") ELSE Ok(p)

\* body matches text at offset i (body: literals and '.', which is any
\* character but a line feed).
MatchesAt(body, text, i) ==
    /\ i + Len(body) - 1 <= Len(text)
    /\ \A k \in 1..Len(body) :
          \/ CharAt(body, k) = "." /\ CharAt(text, i + k - 1) /= "\n"
          \/ CharAt(body, k) /= "." /\ CharAt(body, k) = CharAt(text, i + k - 1)

\* Regex::is_match
is_match(p, text) ==
    LET anchored_start == Len(p) > 0 /\ CharAt(p, 1) = "^"
        a    == IF anchored_start THEN SubSeq(p, 2, Len(p)) ELSE p
        anchored_end == Len(a) > 0 /\ CharAt(a, Len(a)) = "$"
        body == IF anchored_end THEN SubSeq(a, 1, Len(a) - 1) ELSE a
    IN \E i \in 1..(Len(text) + 1) :
          /\ anchored_start => i = 1
          /\ anchored_end => i + Len(body) - 1 = Len(text)
          /\ MatchesAt(body, text, i)

(***************************************************************************)
(* models/mod.rs: LogFilter and its deserialisation from the query string. *)
(***************************************************************************)
default_page == 1
default_per_page == 100

\* Query<LogFilter>: session_id is required, page and per_page take their
\* serde defaults when omitted, use_microseconds defaults to false; the
\* categories are pushed from the raw query string by the handler.
DeserializeLogFilter(q) ==
    IF ~IsSome(q.session_id) THEN Err("missing field session_id")
    ELSE Ok([session_id       |-> Unwrap(q.session_id),
             level            |-> q.level,
             categories       |-> q.categories,
             message_regex    |-> q.message_regex,
             pid              |-> q.pid,
             thread           |-> q.thread,
             object           |-> q.object,
             function_regex   |-> q.function_regex,
             page             |-> IF IsSome(q.page) THEN Unwrap(q.page) ELSE default_page,
             per_page         |-> IF IsSome(q.per_page) THEN Unwrap(q.per_page)
                                  ELSE default_per_page,
             min_timestamp    |-> q.min_timestamp,
             max_timestamp    |-> q.max_timestamp,
             use_microseconds |-> q.use_microseconds])

(***************************************************************************)
(* handlers/query.rs                                                       *)
(***************************************************************************)
\* Milliseconds computed with the divisor of the microseconds.
to_milliseconds_as_micro(clock_time) == clock_time \div 1000

to_milliseconds(clock_time) == clock_time \div 1000000
to_microseconds(clock_time) == clock_time \div 1000

\* A first filter whose bounds are exclusive.
TimeStageExclusive(entry, filter) ==
    LET timestamp == IF filter.use_microseconds THEN to_microseconds(entry.ts)
                     ELSE to_milliseconds(entry.ts)
    IN  IF IsSome(filter.min_timestamp) /\ timestamp <= Unwrap(filter.min_timestamp)
        THEN FALSE
        ELSE IF IsSome(filter.max_timestamp) /\ timestamp >= Unwrap(filter.max_timestamp)
        THEN FALSE
        ELSE TRUE

\* The closure of the first filter (query.rs 99-132).
TimeStagePasses(entry, filter) ==
    LET timestamp == IF filter.use_microseconds THEN to_microseconds(entry.ts)
                     ELSE to_milliseconds(entry.ts)
    IN  IF IsSome(filter.min_timestamp) /\ timestamp < Unwrap(filter.min_timestamp)
        THEN FALSE
        ELSE IF IsSome(filter.max_timestamp) /\ timestamp > Unwrap(filter.max_timestamp)
        THEN FALSE
        ELSE TRUE

\* The category loop of get_logs (query.rs 161-184): string, byte or trimmed
\* equality with one of the requested names.
RECURSIVE CategoryFound(_, _)
CategoryFound(categories, category) ==
    IF categories = << >> THEN FALSE
    ELSE LET cat == categories[1]
             string_eq == cat = category
             bytes_eq  == cat = category
             trim_eq   == Trim(cat) = Trim(category)
         IN IF string_eq \/ bytes_eq \/ trim_eq THEN TRUE
            ELSE CategoryFound(Tail(categories), category)

\* A regex criterion that rejects every entry when the pattern does not
\* compile.
RegexCriterionStrict(pattern, text) ==
    LET regex == Regex_new(pattern) IN
    IF regex.ok THEN ~is_match(regex.val, text) ELSE TRUE

\* A regex criterion (query.rs 192-201, 229-238): an uncompilable pattern
\* is logged and filters nothing.
RegexCriterionRejects(pattern, text) ==
    LET regex == Regex_new(pattern) IN
    IF regex.ok THEN ~is_match(regex.val, text) ELSE FALSE

\* An object criterion that lets the entries without object through.
ObjectCriterionLax(object, entry_object) ==
    IF IsSome(entry_object) THEN Unwrap(entry_object) /= object ELSE FALSE

\* An object criterion that looks only at whether the entry has an object.
ObjectCriterionAnyObject(object, entry_object) ==
    IF IsSome(entry_object) THEN FALSE ELSE TRUE

\* The object criterion (query.rs 218-226).
ObjectCriterionRejects(object, entry_object) ==
    IF IsSome(entry_object) THEN Unwrap(entry_object) /= object ELSE TRUE

\* The closure of the second filter (query.rs 142-241).
OtherStagePasses(entry, filter) ==
    IF IsSome(filter.level) /\ DebugFmt(entry.level) /= Unwrap(filter.level) THEN FALSE
    ELSE IF filter.categories /= << >> /\ ~CategoryFound(filter.categories, entry.category)
    THEN FALSE
    ELSE IF IsSome(filter.message_regex)
            /\ RegexCriterionRejects(Unwrap(filter.message_regex), entry.message)
    THEN FALSE
    ELSE IF IsSome(filter.pid) /\ entry.pid /= Unwrap(filter.pid) THEN FALSE
    ELSE IF IsSome(filter.thread) /\ entry.thread /= Unwrap(filter.thread) THEN FALSE
    ELSE IF IsSome(filter.object)
            /\ ObjectCriterionRejects(Unwrap(filter.object), entry.object)
    THEN FALSE
    ELSE IF IsSome(filter.function_regex)
            /\ RegexCriterionRejects(Unwrap(filter.function_regex), entry.function)
    THEN FALSE
    ELSE TRUE

\* entries.iter().filter(closure).collect()
TimeStage(entries, filter) ==
    SelectSeq(entries, LAMBDA entry : TimeStagePasses(entry, filter))

OtherStage(entries, filter) ==
    SelectSeq(entries, LAMBDA entry : OtherStagePasses(entry, filter))

\* filtered_entries of get_logs (query.rs 95-243).
FilteredEntries(entries, filter) ==
    LET timed == IF IsSome(filter.min_timestamp) \/ IsSome(filter.max_timestamp)
                 THEN TimeStage(entries, filter)
                 ELSE entries
    IN OtherStage(timed, filter)

\* format!("{}", entry.ts): ClockTime displays as H:MM:SS.nnnnnnnnn.
RECURSIVE PadLeft(_, _)
PadLeft(str, width) == IF Len(str) >= width THEN str ELSE PadLeft("0" \o str, width)

ClockTimeFmt(ns) ==
    LET secs == ns \div NANOS_PER_SECOND IN
    ToString(secs \div 3600) \o ":" \o PadLeft(ToString((secs \div 60) % 60), 2)
    \o ":" \o PadLeft(ToString(secs % 60), 2)
    \o "." \o PadLeft(ToString(ns % NANOS_PER_SECOND), 9)

\* impl From<&Entry> for SerializableEntry (models/mod.rs 114-129)
SerializableEntry_from(entry) ==
    [ts |-> ClockTimeFmt(entry.ts), pid |-> entry.pid, thread |-> entry.thread,
     level |-> DebugFmt(entry.level), category |-> entry.category,
     file |-> entry.file, line |-> entry.line, function |-> entry.function,
     message |-> entry.message, object |-> entry.object]

\* .map(SerializableEntry::from).collect()
MapSerializable(entries) ==
    [i \in 1..Len(entries) |-> SerializableEntry_from(entries[i])]

\* Iterator::skip(n) and Iterator::take(n) on a sequence.
Skip(seq, n) == SubSeq(seq, n + 1, Len(seq))
Take(seq, n) == SubSeq(seq, 1, Min2(n, Len(seq)))

MAX_PER_PAGE == 1000

\* The outcome of a handler: a response (kind "ok"), an ApiError (kind
\* "error", with its HTTP status) or a panic of the handler's task (an
\* arithmetic fault; the client gets no response).
LogsOk(entries, total, page, total_pages) ==
    [kind |-> "ok", status |-> 200, message |-> "", entries |-> entries,
     total |-> total, page |-> page, total_pages |-> total_pages]
LogsError(status, message) ==
    [kind |-> "error", status |-> status, message |-> message, entries |-> << >>,
     total |-> 0, page |-> 0, total_pages |-> 0]
LogsPanic(message) ==
    [kind |-> "panic", status |-> 0, message |-> message, entries |-> << >>,
     total |-> 0, page |-> 0, total_pages |-> 0]

\* Pagination that forgets the upper limit of the page size.
PaginateUnclamped(filtered_entries, filter_page, filter_per_page, checks) ==
    LET page     == Max2(filter_page, 1)
        per_page == filter_per_page
        total    == Len(filtered_entries)
    IN
    IF total + per_page = 0 /\ checks THEN LogsPanic("attempt to subtract with overflow")
    ELSE IF per_page = 0 THEN LogsPanic("attempt to divide by zero")
    ELSE LET total_pages == (total + per_page - 1) \div per_page
             start == (page - 1) * per_page
             end   == Min2(start + per_page, total)
    IN
    IF end < start /\ checks THEN LogsPanic("attempt to subtract with overflow")
    ELSE LET skipped == Skip(filtered_entries, start)
             taken   == IF end < start THEN skipped ELSE Take(skipped, end - start)
    IN LogsOk(MapSerializable(taken), total, page, total_pages)

\* "Apply pagination" (query.rs 252-283).  usize arithmetic: a division by
\* zero panics in every build; a subtraction below zero panics when the
\* build checks overflow (checks = TRUE, the dev profile) and wraps
\* otherwise (the release profile), and then take() is given a count larger
\* than any sequence, so that it takes all that skip() left.
Paginate(filtered_entries, filter_page, filter_per_page, checks) ==
    LET page     == Max2(filter_page, 1)
        per_page == Min2(filter_per_page, MAX_PER_PAGE)
        total    == Len(filtered_entries)
    IN
    IF total + per_page = 0 /\ checks THEN LogsPanic("attempt to subtract with overflow")
    ELSE IF per_page = 0 THEN LogsPanic("attempt to divide by zero")
    ELSE LET total_pages == (total + per_page - 1) \div per_page
             start == (page - 1) * per_page
             end   == Min2(start + per_page, total)
    IN
    IF end < start /\ checks THEN LogsPanic("attempt to subtract with overflow")
    ELSE LET skipped == Skip(filtered_entries, start)
             taken   == IF end < start THEN skipped ELSE Take(skipped, end - start)
    IN LogsOk(MapSerializable(taken), total, page, total_pages)

\* get_logs (query.rs 25-283) on the session table logs.
get_logs(logs, q, checks) ==
    LET query_result == DeserializeLogFilter(q) IN
    IF ~query_result.ok
    THEN LogsError(400, "Invalid query parameters")
    ELSE LET filter == query_result.val IN
    IF filter.session_id \notin DOMAIN logs
    THEN LogsError(404, "Session not found")
    ELSE Paginate(FilteredEntries(logs[filter.session_id], filter),
                  filter.page, filter.per_page, checks)

(***************************************************************************)
(* handlers/timeline.rs                                                    *)
(***************************************************************************)
default_interval == "1s"

\* The outcomes of get_timeline.  scanned is the number of stored entries
\* the handler has run its filter closure on when the outcome is decided.
TimelineOk(buckets, min_timestamp, max_timestamp) ==
    [kind |-> "ok", status |-> 200, message |-> "", buckets |-> buckets,
     min_timestamp |-> min_timestamp, max_timestamp |-> max_timestamp, scanned |-> 0]
TimelineError(status, message) ==
    [kind |-> "error", status |-> status, message |-> message, buckets |-> << >>,
     min_timestamp |-> 0, max_timestamp |-> 0, scanned |-> 0]
TimelinePanic(message) ==
    [kind |-> "panic", status |-> 0, message |-> message, buckets |-> << >>,
     min_timestamp |-> 0, max_timestamp |-> 0, scanned |-> 0]

\* Number of leading decimal digits of s.
RECURSIVE DigitPrefixLen(_, _)
DigitPrefixLen(s, i) ==
    IF i <= Len(s) /\ CharAt(s, i) \in Digits THEN DigitPrefixLen(s, i + 1) ELSE i - 1

\* parse_interval: ^(\d+)(us|ms|s|m)$ to microseconds.  The product of the
\* value and the unit's factor is a u64: beyond 2^64 a build that checks
\* overflow panics, another one goes on with the product modulo 2^64.
parse_interval(interval, checks) ==
    LET n     == DigitPrefixLen(interval, 1)
        unit  == SubSeq(interval, n + 1, Len(interval))
    IN
    IF n = 0 \/ unit \notin {"us", "ms", "s", "m"}
    THEN Err("Invalid interval format")
    ELSE CHOOSE result \in
        {IF ~value.ok THEN Err("Invalid interval value")
         ELSE CHOOSE r \in
             {IF us.overflow /\ checks THEN Err("attempt to multiply with overflow")
              ELSE Ok(u64_to_int(us.val)) :
                 us \in {CASE unit = "us" -> exact(value.val)
                           [] unit = "ms" -> u64_mul(exact(value.val), 1000)
                           [] unit = "s"  -> u64_mul(u64_mul(exact(value.val), 1000), 1000)
                           [] unit = "m"  -> u64_mul(u64_mul(u64_mul(exact(value.val), 1000),
                                                             1000), 60)}} : TRUE :
            value \in {ParseU64(SubSeq(interval, 1, n))}} : TRUE

\* str::ends_with
EndsWith(s, suffix) ==
    Len(s) >= Len(suffix) /\ SubSeq(s, Len(s) - Len(suffix) + 1, Len(s)) = suffix

\* The filter closure of get_timeline (timeline.rs 136-204); it has no
\* timestamp stage.
TimelinePasses(entry, filter) ==
    IF IsSome(filter.level) /\ DebugFmt(entry.level) /= Unwrap(filter.level) THEN FALSE
    ELSE IF filter.categories /= << >>
            /\ ~(\E i \in 1..Len(filter.categories) :
                    \/ filter.categories[i] = entry.category
                    \/ Trim(filter.categories[i]) = Trim(entry.category))
    THEN FALSE
    ELSE IF IsSome(filter.message_regex)
            /\ RegexCriterionRejects(Unwrap(filter.message_regex), entry.message)
    THEN FALSE
    ELSE IF IsSome(filter.pid) /\ entry.pid /= Unwrap(filter.pid) THEN FALSE
    ELSE IF IsSome(filter.thread) /\ entry.thread /= Unwrap(filter.thread) THEN FALSE
    ELSE IF IsSome(filter.object)
            /\ ObjectCriterionRejects(Unwrap(filter.object), entry.object)
    THEN FALSE
    ELSE IF IsSome(filter.function_regex)
            /\ RegexCriterionRejects(Unwrap(filter.function_regex), entry.function)
    THEN FALSE
    ELSE TRUE

TimelineFiltered(entries, filter) ==
    SelectSeq(entries, LAMBDA entry : TimelinePasses(entry, filter))

\* The largest element taken for the smallest.
SetMinSwapped(S) == CHOOSE x \in S : \A y \in S : x >= y

SetMin(S) == CHOOSE x \in S : \A y \in S : x <= y
SetMax(S) == CHOOSE x \in S : \A y \in S : x >= y

\* The keys in the order a HashMap happens to iterate them (here:
\* descending), the sort forgotten.
RECURSIVE SortedKeysUnsorted(_)
SortedKeysUnsorted(S) ==
    IF S = {} THEN << >>
    ELSE LET top == CHOOSE x \in S : \A y \in S : x >= y
         IN << top >> \o SortedKeysUnsorted(S \ {top})

\* Vec::sort_by_key on the bucket timestamps (the keys of a map: distinct).
RECURSIVE SortedKeys(_)
SortedKeys(S) ==
    IF S = {} THEN << >> ELSE << SetMin(S) >> \o SortedKeys(S \ {SetMin(S)})

\* "Group entries by time bucket" and the sort (timeline.rs 210-274).
Buckets(filtered_entries, interval, interval_us) ==
    LET use_microseconds == EndsWith(interval, "us")
        stamp(e) == IF use_microseconds THEN to_microseconds(e.ts)
                    ELSE to_milliseconds(e.ts)
        stamps   == {stamp(filtered_entries[i]) : i \in 1..Len(filtered_entries)}
        min_timestamp == IF stamps = {} THEN 0 ELSE SetMin(stamps)
        max_timestamp == IF stamps = {} THEN 0 ELSE SetMax(stamps)
        width    == IF use_microseconds THEN interval_us ELSE interval_us \div 1000
    IN
    IF filtered_entries /= << >> /\ width = 0
    THEN TimelinePanic("attempt to divide by zero")
    ELSE LET bucket_time(e) ==
                 ((stamp(e) - min_timestamp) \div width) * width + min_timestamp
             keys == {bucket_time(filtered_entries[i]) : i \in 1..Len(filtered_entries)}
             count(k) == Cardinality({i \in 1..Len(filtered_entries) :
                                         bucket_time(filtered_entries[i]) = k})
             sorted == SortedKeys(keys)
         IN TimelineOk([j \in 1..Len(sorted) |->
                           [timestamp |-> sorted[j], count |-> count(sorted[j])]],
                       min_timestamp, max_timestamp)

\* get_timeline (timeline.rs 87-275); tq is the query of get_logs plus the
\* optional interval.
get_timeline(logs, tq, checks) ==
    LET query_result == DeserializeLogFilter(tq) IN
    IF ~query_result.ok
    THEN TimelineError(400, "Invalid timeline query parameters")
    ELSE LET filter   == query_result.val
             interval == IF IsSome(tq.interval) THEN Unwrap(tq.interval)
                         ELSE default_interval
    IN
    IF filter.session_id \notin DOMAIN logs
    THEN TimelineError(404, "Session not found")
    ELSE LET entries          == logs[filter.session_id]
             filtered_entries == TimelineFiltered(entries, filter)
             interval_us      == parse_interval(interval, checks)
             outcome == IF ~interval_us.ok
                        THEN IF interval_us.err = "attempt to multiply with overflow"
                             THEN TimelinePanic(interval_us.err)
                             ELSE TimelineError(400, interval_us.err)
                        ELSE Buckets(filtered_entries, interval, interval_us.val)
    IN [outcome EXCEPT !.scanned = Len(entries)]

(***************************************************************************)
(* handlers/options.rs                                                     *)
(***************************************************************************)
OptionsOk(categories, levels, pids, threads, objects) ==
    [kind |-> "ok", status |-> 200, message |-> "", categories |-> categories,
     levels |-> levels, pids |-> pids, threads |-> threads, objects |-> objects]
OptionsError(status, message) ==
    [kind |-> "error", status |-> status, message |-> message, categories |-> {},
     levels |-> {}, pids |-> {}, threads |-> {}, objects |-> {}]

\* A handler that answers for a session it does not find as for an empty one.
get_filter_options_lenient(logs, session_id) ==
    IF ~IsSome(session_id) THEN OptionsError(400, "Missing session_id parameter")
    ELSE IF Unwrap(session_id) \notin DOMAIN logs
    THEN OptionsOk({}, {}, {}, {}, {})
    ELSE OptionsError(404, "No log entries found for session")

\* get_filter_options (options.rs 13-90).  Each list of the response is a
\* HashSet collected in its iteration order, which is unspecified: the
\* model keeps the set of values.
get_filter_options(logs, session_id) ==
    IF ~IsSome(session_id) THEN OptionsError(400, "Missing session_id parameter")
    ELSE IF Unwrap(session_id) \notin DOMAIN logs
    THEN OptionsError(404, "Session not found")
    ELSE LET entries == logs[Unwrap(session_id)]
             idx     == 1..Len(entries) IN
    IF entries = << >> THEN OptionsError(404, "No log entries found for session")
    ELSE OptionsOk({entries[i].category : i \in idx},
                   {DebugFmt(entries[i].level) : i \in idx},
                   {entries[i].pid : i \in idx},
                   {entries[i].thread : i \in idx},
                   {Unwrap(entries[i].object) : i \in {j \in idx : IsSome(entries[j].object)}})

(***************************************************************************)
(* The inputs of the model.                                                *)
(***************************************************************************)
MaxSessions == 2
MaxLines == 2
MaxCriteria == 2
MaxFields == 2

\* Log lines: three that parse (levels DEBUG, ERROR and WARN; with and
\* without an object; 123456789 ns, 1500000 ns and 900000000 ns) and one
\* that does not (WARNING is no level name of parse_debug_level).
LineDebug ==
    "0:00:00.123456789  1234   0x55d5c3a1b6e0 DEBUG videodecoder gstvideodecoder.c:1200:gst_video_decoder_finish_frame:<dec0> some message"
LineError ==
    "0:00:00.001500000 1234 0x55d5c3a1b6e0 ERROR GST_PADS gstpad.c:42:gst_pad_push: push failed"
LineWarn ==
    "0:00:00.900000000 5678 0x7f00 WARN videodecoder gstvideodecoder.c:77:gst_video_decoder_drain:<dec1> drain frame"
LineBad ==
    "0:00:01.000000000 5678 0x7f00 WARNING videodecoder gstvideodecoder.c:78:gst_video_decoder_drain:<dec1> dropped"

Lines == {LineDebug, LineError, LineWarn, LineBad}

SeqsUpTo(S, n) == UNION {[1..k -> S] : k \in 0..n}

\* The uploaded files: every sequence of at most MaxLines lines.
Files == SeqsUpTo(Lines, MaxLines)

\* Uuid::new_v4().to_string(): the n-th identifier minted (fresh each time).
\* An identifier generator that hands out the same identifier again.
UuidReused(n) == "session-1"

Uuid(n) == "session-" \o ToString(n)

SessionIds == {Uuid(n) : n \in 1..MaxSessions}

\* Criterion values of the queries.
LevelValues    == {None, Some("DEBUG"), Some("Debug")}
CategoryValues == {<< >>, << " GST_PADS " >>, << "audio", "videodecoder" >>}
MessageRegexValues  == {None, Some("("), Some("frame$")}
FunctionRegexValues == {None, Some("[a-"), Some("^gst_video")}
PidValues      == {None, Some(1234)}
ThreadValues   == {None, Some("0x7f00")}
ObjectValues   == {None, Some("dec0"), Some("")}
MinTimestampValues == {None, Some(1), Some(123456)}
MaxTimestampValues == {None, Some(900), Some(1500)}

\* The query string of /api/logs and /api/timeline, as deserialised.
Query(sid, f, page, per_page, interval) ==
    [session_id |-> sid, level |-> f.level, categories |-> f.categories,
     message_regex |-> f.message_regex, pid |-> f.pid, thread |-> f.thread,
     object |-> f.object, function_regex |-> f.function_regex,
     page |-> page, per_page |-> per_page,
     min_timestamp |-> f.min_timestamp, max_timestamp |-> f.max_timestamp,
     use_microseconds |-> f.use_microseconds, interval |-> interval]

CriteriaNames == {"level", "categories", "message_regex", "pid", "thread", "object",
                  "function_regex", "min_timestamp", "max_timestamp"}

\* The criteria a filter specification sets.
Present(f) ==
    {c \in CriteriaNames :
        \/ c = "level" /\ IsSome(f.level)
        \/ c = "categories" /\ f.categories /= << >>
        \/ c = "message_regex" /\ IsSome(f.message_regex)
        \/ c = "pid" /\ IsSome(f.pid)
        \/ c = "thread" /\ IsSome(f.thread)
        \/ c = "object" /\ IsSome(f.object)
        \/ c = "function_regex" /\ IsSome(f.function_regex)
        \/ c = "min_timestamp" /\ IsSome(f.min_timestamp)
        \/ c = "max_timestamp" /\ IsSome(f.max_timestamp)}

AllFilterSpecs ==
    [level : LevelValues, categories : CategoryValues,
     message_regex : MessageRegexValues, pid : PidValues, thread : ThreadValues,
     object : ObjectValues, function_regex : FunctionRegexValues,
     min_timestamp : MinTimestampValues, max_timestamp : MaxTimestampValues,
     use_microseconds : BOOLEAN]

\* The filter specifications with at most MaxCriteria criteria set.
FilterSpecs == {f \in AllFilterSpecs : Cardinality(Present(f)) <= MaxCriteria}

NoCriteria ==
    [level |-> None, categories |-> << >>, message_regex |-> None, pid |-> None,
     thread |-> None, object |-> None, function_regex |-> None,
     min_timestamp |-> None, max_timestamp |-> None, use_microseconds |-> FALSE]

(***************************************************************************)
(* The state.                                                              *)
(***************************************************************************)
VARIABLES
    parsed_logs,      \* AppState.parsed_logs: session id -> entries
    temp_files,       \* the files of AppState.temp_dir: session id -> lines
    tasks,            \* session ids whose spawn_blocking task has not run yet
    task_results,     \* session id -> how its finished task ended: "ok",
                      \* "error" (parse_log_file returned Err) or "panic"
    lock,             \* the RwLock of AppState.parsed_logs: who holds it and
                      \* who waits for it
    minted,           \* number of session ids minted by upload_log so far
    response,         \* the outcome of the last handler call
    overflow_checks,  \* whether the build checks integer overflow
    client            \* a client with one request to send, or reading the
                      \* pages 1, 2, ... of one query

server == << parsed_logs, temp_files, tasks, task_results, lock, minted,
            overflow_checks >>
vars == << parsed_logs, temp_files, tasks, task_results, lock, minted, response,
           overflow_checks, client >>

NoResponse == [op |-> "none", q |-> << >>, out |-> << >>]

Client(state, op, q, next, total_pages, acc) ==
    [state |-> state, op |-> op, q |-> q, next |-> next,
     total_pages |-> total_pages, acc |-> acc]
ClientIdle == Client("idle", "none", << >>, 0, 0, << >>)

EmptyMap == [x \in {} |-> << >>]

\* std::sync::RwLock (models/mod.rs 14).  readers: the handlers holding a
\* read guard; writer: the task holding the write guard; read_queue and
\* write_queue: the handlers blocked in read() and the tasks blocked in
\* write().  Whether a waiting writer keeps new readers out is left to the
\* platform by the standard library: writer_preference.
RwLock(readers, writer, read_queue, write_queue, writer_preference) ==
    [readers |-> readers, writer |-> writer, read_queue |-> read_queue,
     write_queue |-> write_queue, writer_preference |-> writer_preference]

\* RwLock::new (main.rs 136)
Unlocked == {RwLock({}, None, {}, {}, p) : p \in BOOLEAN}

\* The lock where each handler and task runs as one step: it is free
\* between any two steps, nobody waits, and the platform's preference plays
\* no part.
Uncontended == RwLock({}, None, {}, {}, FALSE)

\* main(): an empty session table and an empty temporary directory.
Init ==
    /\ parsed_logs = EmptyMap
    /\ temp_files = EmptyMap
    /\ tasks = {}
    /\ task_results = EmptyMap
    /\ lock = Uncontended
    /\ minted = 0
    /\ response = NoResponse
    /\ overflow_checks \in BOOLEAN
    /\ client = ClientIdle

\* A table replaced by one that holds the new session only.
replace_sessions(logs, session_id, entries) ==
    [s \in {session_id} |-> entries]

\* HashMap::insert (upload.rs 150)
insert_session(logs, session_id, entries) ==
    [s \in DOMAIN logs \cup {session_id} |->
        IF s = session_id THEN entries ELSE logs[s]]

\* File::create and write_all (upload.rs 66-80) on the temporary directory.
write_file(files, session_id, data) ==
    [s \in DOMAIN files \cup {session_id} |-> IF s = session_id THEN data ELSE files[s]]

\* std::fs::remove_file (upload.rs 156)
remove_file(files, session_id) == [s \in DOMAIN files \ {session_id} |-> files[s]]

UploadOk(session_id) == [kind |-> "ok", status |-> 200, session_id |-> session_id]
UploadError(status) == [kind |-> "error", status |-> status, session_id |-> ""]

UploadIo == {"ok", "multipart_error", "bytes_error", "create_error", "write_error"}

\* upload_log (upload.rs 19-103) for a multipart body with the given fields
\* (each a file); io is the outcome of its reads and writes.  Only the
\* first field is processed: its data is written to the temporary file and
\* the parsing task is spawned.  A failed write leaves some prefix of the
\* data in the file.
upload_log(fields, io) ==
    /\ minted < MaxSessions
    /\ LET session_id == Uuid(minted + 1) IN
       /\ minted' = minted + 1
       /\ IF io = "multipart_error" \/ (fields /= << >> /\ io = "bytes_error")
          THEN /\ response' = [op |-> "upload_log", q |-> fields, out |-> UploadError(400)]
               /\ UNCHANGED << temp_files, tasks >>
          ELSE IF fields = << >>
          THEN /\ response' = [op |-> "upload_log", q |-> fields,
                               out |-> UploadOk(session_id)]
               /\ UNCHANGED << temp_files, tasks >>
          ELSE IF io = "create_error"
          THEN /\ response' = [op |-> "upload_log", q |-> fields, out |-> UploadError(500)]
               /\ UNCHANGED << temp_files, tasks >>
          ELSE IF io = "write_error"
          THEN /\ \E k \in 0..Len(fields[1]) :
                     temp_files' = write_file(temp_files, session_id,
                                              SubSeq(fields[1], 1, k))
               /\ response' = [op |-> "upload_log", q |-> fields, out |-> UploadError(500)]
               /\ UNCHANGED tasks
          ELSE /\ temp_files' = write_file(temp_files, session_id, fields[1])
               /\ tasks' = tasks \cup {session_id}
               /\ response' = [op |-> "upload_log", q |-> fields,
                               out |-> UploadOk(session_id)]
    /\ UNCHANGED << parsed_logs, task_results, lock, overflow_checks >>

ParseIo == {"ok", "open_error", "read_error", "remove_error"}

\* The result of the closure given to spawn_blocking (upload.rs 87-93).
set_result(results, session_id, result) ==
    [s \in DOMAIN results \cup {session_id} |->
        IF s = session_id THEN result ELSE results[s]]

\* A task that creates the session's entry in the table before it opens the
\* file.
parse_log_file_store_first(session_id, io) ==
    /\ session_id \in tasks
    /\ tasks' = tasks \ {session_id}
    /\ parsed_logs' = insert_session(parsed_logs, session_id,
                          IF io \in {"open_error", "read_error"} THEN << >>
                          ELSE parse(temp_files[session_id], overflow_checks).val)
    /\ temp_files' = IF io = "ok" THEN remove_file(temp_files, session_id) ELSE temp_files
    /\ task_results' = set_result(task_results, session_id,
                          CASE io = "open_error" -> "error"
                            [] io = "read_error" -> "panic"
                            [] OTHER -> "ok")
    /\ UNCHANGED << lock, minted, response, overflow_checks >>

\* The spawned task: parse_log_file (upload.rs 106-163).  The file is
\* opened and parsed first; the table is written once, under the write
\* lock, with the whole sequence; then the temporary file is removed.
\* File::open or fs::metadata failing returns Err; a line that cannot be
\* read makes line.unwrap() panic in ParserIterator::next (parser 294),
\* which ends the task before the table is touched, and so does a panic in
\* Entry::new.
parse_log_file(session_id, io) ==
    /\ session_id \in tasks
    /\ tasks' = tasks \ {session_id}
    /\ IF io = "open_error"
       THEN /\ task_results' = set_result(task_results, session_id, "error")
            /\ UNCHANGED << parsed_logs, temp_files >>
       ELSE IF io = "read_error"
       THEN /\ task_results' = set_result(task_results, session_id, "panic")
            /\ UNCHANGED << parsed_logs, temp_files >>
       ELSE \E entries \in {parse(temp_files[session_id], overflow_checks)} :
            IF ~entries.ok
            THEN /\ task_results' = set_result(task_results, session_id, "panic")
                 /\ UNCHANGED << parsed_logs, temp_files >>
            ELSE /\ parsed_logs' = insert_session(parsed_logs, session_id, entries.val)
                 /\ temp_files' = IF io = "remove_error" THEN temp_files
                                  ELSE remove_file(temp_files, session_id)
                 /\ task_results' = set_result(task_results, session_id, "ok")
    /\ UNCHANGED << lock, minted, response, overflow_checks >>

\* GET /api/logs: the handler runs under the read lock and answers.
GetLogs(q) ==
    /\ response' = [op |-> "get_logs", q |-> q,
                    out |-> get_logs(parsed_logs, q, overflow_checks)]
    /\ UNCHANGED server

\* GET /api/timeline
GetTimeline(tq) ==
    /\ response' = [op |-> "get_timeline", q |-> tq, out |-> get_timeline(parsed_logs, tq, overflow_checks)]
    /\ UNCHANGED server

\* GET /api/filter-options
GetFilterOptions(session_id) ==
    /\ response' = [op |-> "get_filter_options", q |-> session_id,
                    out |-> get_filter_options(parsed_logs, session_id)]
    /\ UNCHANGED server

(***************************************************************************)
(* Spec: the whole service, uploads and ingestions interleaved with        *)
(* queries.                                                                *)
(***************************************************************************)
\* The files clients upload here: an empty one, the two-entry file of the
\* level scenario, and one whose first line does not parse.
UploadFiles == {<< >>, << LineDebug, LineError >>, << LineBad, LineWarn >>}

UploadBodies == SeqsUpTo(UploadFiles, MaxFields)

RequestedIds == {None} \cup {Some(s) : s \in SessionIds \cup {"unknown"}}

\* The filter specifications used here: none, or a level.
MainFilters == {[NoCriteria EXCEPT !.level = l] : l \in {None, Some("Debug")}}

MainQueries == {Query(sid, f, None, None, None) : sid \in RequestedIds, f \in MainFilters}

MainTimelineQueries ==
    {Query(sid, f, None, None, i) :
        sid \in RequestedIds, f \in MainFilters, i \in {Some("500ms")}}

Upload == \E fields \in UploadBodies, io \in UploadIo :
              upload_log(fields, io) /\ UNCHANGED client
Ingest == \E session_id \in SessionIds, io \in ParseIo :
              parse_log_file(session_id, io) /\ UNCHANGED client
QueryLogs == \E q \in MainQueries : GetLogs(q) /\ UNCHANGED client
QueryTimeline == \E tq \in MainTimelineQueries : GetTimeline(tq) /\ UNCHANGED client
QueryOptions == \E session_id \in RequestedIds :
                    GetFilterOptions(session_id) /\ UNCHANGED client

Next == Upload \/ Ingest \/ QueryLogs \/ QueryTimeline \/ QueryOptions

Spec == Init /\ [][Next]_vars

(***************************************************************************)
(* SpecUpload: uploads of bodies with no, one or several fields, their     *)
(* ingestions and a client polling for the sessions, all without I/O       *)
(* failure.  A task given to spawn_blocking is run by the runtime's        *)
(* blocking pool: a task that is spawned is eventually run.                *)
(***************************************************************************)
UploadNoFailure == \E fields \in UploadBodies :
                       upload_log(fields, "ok") /\ UNCHANGED client
IngestNoFailure == \E session_id \in SessionIds :
                       parse_log_file(session_id, "ok") /\ UNCHANGED client
Poll == \E session_id \in SessionIds :
            GetLogs(Query(Some(session_id), NoCriteria, None, None, None))
            /\ UNCHANGED client

NextUpload == UploadNoFailure \/ IngestNoFailure \/ Poll

\* The blocking pool runs a spawned task: the task leaves the set of the
\* tasks not yet run, which is the step IngestNoFailure and no other.
TaskRuns == \E session_id \in SessionIds :
                session_id \in tasks /\ tasks' = tasks \ {session_id}

SpecUpload == Init /\ [][NextUpload]_vars /\ WF_tasks(TaskRuns)

(***************************************************************************)
(* SpecFilter: one session, parsed from any file of at most MaxLines       *)
(* lines, and one query with any filter specification of FilterSpecs.      *)
(***************************************************************************)
TheSession == Uuid(1)

FilterIntervals == {None, Some("100us")}

FilterClients ==
    {Client("ready", "get_logs", Query(Some(TheSession), f, None, None, None), 0, 0, << >>) :
        f \in FilterSpecs}
    \cup
    {Client("ready", "get_timeline", Query(Some(TheSession), f, None, None, i), 0, 0, << >>) :
        f \in FilterSpecs, i \in FilterIntervals}

\* The state after one upload and its ingestion, a client about to ask.
InitFilter ==
    /\ overflow_checks \in BOOLEAN
    /\ \E file \in Files :
           parsed_logs = insert_session(EmptyMap, TheSession,
                                        parse(file, overflow_checks).val)
    /\ temp_files = EmptyMap
    /\ tasks = {}
    /\ task_results = EmptyMap
    /\ lock = Uncontended
    /\ minted = 1
    /\ response = NoResponse
    /\ client \in FilterClients

ClientGetLogs ==
    /\ client.state = "ready" /\ client.op = "get_logs"
    /\ GetLogs(client.q)
    /\ client' = [client EXCEPT !.state = "done"]

ClientGetTimeline ==
    /\ client.state = "ready" /\ client.op = "get_timeline"
    /\ GetTimeline(client.q)
    /\ client' = [client EXCEPT !.state = "done"]

NextFilter == ClientGetLogs \/ ClientGetTimeline

SpecFilter == InitFilter /\ [][NextFilter]_vars

(***************************************************************************)
(* SpecTimeline: one session, parsed from any file of at most              *)
(* MaxTimelineLines lines, and one timeline request.                       *)
(***************************************************************************)
MaxTimelineLines == 3

\* Lines at 0 ms, 400 ms, 900 ms and 900.5 ms.
LineAt0 ==
    "0:00:00.000000000 1234 0x7f00 DEBUG videodecoder gstvideodecoder.c:1:gst_video_decoder_drain:<dec0> frame 0"
LineAt400 ==
    "0:00:00.400000000 1234 0x7f00 DEBUG videodecoder gstvideodecoder.c:2:gst_video_decoder_drain:<dec0> frame 1"
LineAt900 ==
    "0:00:00.900000000 5678 0x7f00 DEBUG videodecoder gstvideodecoder.c:3:gst_video_decoder_drain:<dec0> frame 2"
LineAt900500 ==
    "0:00:00.900500000 1234 0x7f00 DEBUG videodecoder gstvideodecoder.c:4:gst_video_decoder_drain:<dec0> frame 3"

TimelineLines == {LineAt0, LineAt400, LineAt900, LineAt900500}

TimelineFiles == SeqsUpTo(TimelineLines, MaxTimelineLines)

TimelineFilters ==
    {NoCriteria,
     [NoCriteria EXCEPT !.pid = Some(1234)],
     [NoCriteria EXCEPT !.use_microseconds = TRUE],
     [NoCriteria EXCEPT !.min_timestamp = Some(400)]}

\* Interval strings: omitted, of the grammar, of width 0, and not of the
\* grammar.
TimelineIntervals ==
    {None, Some("500ms"), Some("300us"), Some("1m"), Some("0s"),
     Some("500"), Some("ms"), Some("5x"), Some("")}

TimelineClients ==
    {Client("ready", "get_timeline", Query(Some(sid), f, None, None, i), 0, 0, << >>) :
        sid \in {TheSession, "unknown"}, f \in TimelineFilters, i \in TimelineIntervals}

InitTimeline ==
    /\ overflow_checks \in BOOLEAN
    /\ \E file \in TimelineFiles :
           parsed_logs = insert_session(EmptyMap, TheSession,
                                        parse(file, overflow_checks).val)
    /\ temp_files = EmptyMap
    /\ tasks = {}
    /\ task_results = EmptyMap
    /\ lock = Uncontended
    /\ minted = 1
    /\ response = NoResponse
    /\ client \in TimelineClients

NextTimeline == ClientGetTimeline

SpecTimeline == InitTimeline /\ [][NextTimeline]_vars

(***************************************************************************)
(* SpecInterval: one session and one timeline request whose interval is of *)
(* the grammar: small and large counts of each unit, the count 0 of each   *)
(* unit, counts whose microseconds are beyond u64 and a count beyond u64.  *)
(***************************************************************************)
\* 2^61 + 1 ms are 125 * 2^64 + 1000 us; 2^58 s are 15625 * 2^64 us.
IntervalBeyondRangeMs == "2305843009213693953ms"
IntervalBeyondRangeS == "288230376151711744s"
\* A count beyond u64.
IntervalCountBeyondRange == "99999999999999999999s"

GrammarIntervals ==
    {"1us", "300us", "1ms", "500ms", "1s", "30s", "1m", "35m",
     "0us", "0ms", "0s", "0m", "000500ms",
     IntervalBeyondRangeMs, IntervalBeyondRangeS, IntervalCountBeyondRange}

IntervalClients ==
    {Client("ready", "get_timeline", Query(Some(TheSession), f, None, None, Some(i)),
            0, 0, << >>) :
        f \in TimelineFilters, i \in GrammarIntervals}

InitInterval ==
    /\ overflow_checks \in BOOLEAN
    /\ \E file \in TimelineFiles :
           parsed_logs = insert_session(EmptyMap, TheSession,
                                        parse(file, overflow_checks).val)
    /\ temp_files = EmptyMap
    /\ tasks = {}
    /\ task_results = EmptyMap
    /\ lock = Uncontended
    /\ minted = 1
    /\ response = NoResponse
    /\ client \in IntervalClients

NextInterval == ClientGetTimeline

SpecInterval == InitInterval /\ [][NextInterval]_vars

(***************************************************************************)
(* SpecLock: the handlers and the ingestion tasks step by step through     *)
(* the lock of the session table.  MaxReaders handlers serve get_logs      *)
(* requests; the tasks of MaxSessions uploads have parsed their files and  *)
(* are about to store them.                                                *)
(***************************************************************************)
MaxReaders == 3

Handlers == 1..MaxReaders

\* A writer that has to wait only for the readers of its own session.
can_write_per_key(l, session_id, requests) ==
    /\ l.writer = None
    /\ \A h \in l.readers : requests[h] /= Some(session_id)

\* RwLock::write returns once no guard is held.
can_write(l, session_id, requests) == l.readers = {} /\ l.writer = None

\* RwLock::read returns once no write guard is held and, on a platform
\* that prefers writers, no writer waits.
can_read(l) == l.writer = None /\ (l.writer_preference => l.write_queue = {})

LockFiles == [s \in SessionIds |-> IF s = Uuid(1) THEN << LineDebug, LineError >>
                                   ELSE << LineWarn >>]

InitLock ==
    /\ parsed_logs = EmptyMap
    /\ temp_files = LockFiles
    /\ tasks = SessionIds
    /\ task_results = EmptyMap
    /\ lock \in Unlocked
    /\ minted = MaxSessions
    /\ response = NoResponse
    /\ overflow_checks \in BOOLEAN
    /\ client = [h \in Handlers |-> None]

\* A get_logs request for session_id arrives at handler h, which calls
\* state.parsed_logs.read() (query.rs 74).
HandlerRead(h, session_id) ==
    /\ client[h] = None
    /\ client' = [client EXCEPT ![h] = Some(session_id)]
    /\ lock' = [lock EXCEPT !.read_queue = @ \cup {h}]
    /\ UNCHANGED << parsed_logs, temp_files, tasks, task_results, minted, response,
                    overflow_checks >>

\* read() returns the guard to h.
ReadGranted(h) ==
    /\ h \in lock.read_queue
    /\ can_read(lock)
    /\ lock' = [lock EXCEPT !.read_queue = @ \ {h}, !.readers = @ \cup {h}]
    /\ UNCHANGED << parsed_logs, temp_files, tasks, task_results, minted, response,
                    overflow_checks, client >>

\* h looks the session up, filters, paginates and answers; the guard is
\* dropped when the handler returns (query.rs 74-282).
HandlerAnswer(h) ==
    /\ h \in lock.readers
    /\ LET q == Query(client[h], NoCriteria, None, None, None) IN
       response' = [op |-> "get_logs", q |-> q,
                    out |-> get_logs(parsed_logs, q, overflow_checks)]
    /\ lock' = [lock EXCEPT !.readers = @ \ {h}]
    /\ client' = [client EXCEPT ![h] = None]
    /\ UNCHANGED << parsed_logs, temp_files, tasks, task_results, minted,
                    overflow_checks >>

\* The task of session_id has collected its entries and calls
\* state.parsed_logs.write() (upload.rs 149).
TaskWrite(session_id) ==
    /\ session_id \in tasks
    /\ session_id \notin lock.write_queue
    /\ lock.writer /= Some(session_id)
    /\ lock' = [lock EXCEPT !.write_queue = @ \cup {session_id}]
    /\ UNCHANGED << parsed_logs, temp_files, tasks, task_results, minted, response,
                    overflow_checks, client >>

\* write() returns the guard to the task.
WriteGranted(session_id) ==
    /\ session_id \in lock.write_queue
    /\ can_write(lock, session_id, client)
    /\ lock' = [lock EXCEPT !.write_queue = @ \ {session_id}, !.writer = Some(session_id)]
    /\ UNCHANGED << parsed_logs, temp_files, tasks, task_results, minted, response,
                    overflow_checks, client >>

\* A task that installs its session one entry at a time, taking the write
\* guard anew for each entry.
TaskInsertEntryByEntry(session_id) ==
    /\ lock.writer = Some(session_id)
    /\ LET entries == parse(temp_files[session_id], overflow_checks).val
           stored  == IF session_id \in DOMAIN parsed_logs
                      THEN Len(parsed_logs[session_id]) ELSE 0
           now     == SubSeq(entries, 1, Min2(stored + 1, Len(entries)))
       IN /\ parsed_logs' = insert_session(parsed_logs, session_id, now)
          /\ IF Len(now) = Len(entries)
             THEN /\ temp_files' = remove_file(temp_files, session_id)
                  /\ tasks' = tasks \ {session_id}
                  /\ task_results' = set_result(task_results, session_id, "ok")
             ELSE UNCHANGED << temp_files, tasks, task_results >>
    /\ lock' = [lock EXCEPT !.writer = None]
    /\ UNCHANGED << minted, response, overflow_checks, client >>

\* The task inserts its entries, drops the guard at the end of the block
\* (upload.rs 148-153), removes the file and returns Ok.
TaskInsert(session_id) ==
    /\ lock.writer = Some(session_id)
    /\ parsed_logs' = insert_session(parsed_logs, session_id, parse(temp_files[session_id], overflow_checks).val)
    /\ lock' = [lock EXCEPT !.writer = None]
    /\ temp_files' = remove_file(temp_files, session_id)
    /\ tasks' = tasks \ {session_id}
    /\ task_results' = set_result(task_results, session_id, "ok")
    /\ UNCHANGED << minted, response, overflow_checks, client >>

Arrive == \E h \in Handlers, session_id \in SessionIds : HandlerRead(h, session_id)
EnterRead == \E h \in Handlers : ReadGranted(h)
Answer == \E h \in Handlers : HandlerAnswer(h)
Store == \E session_id \in SessionIds : TaskWrite(session_id)
EnterWrite == \E session_id \in SessionIds : WriteGranted(session_id)
Insert == \E session_id \in SessionIds : TaskInsert(session_id)

NextLock == Arrive \/ EnterRead \/ Answer \/ Store \/ EnterWrite \/ Insert

SpecLock == InitLock /\ [][NextLock]_vars

(***************************************************************************)
(* SpecParse: the ingestion of one uploaded file of at most MaxParseLines  *)
(* lines, among them lines that do not tokenize and lines with numeric     *)
(* fields at and beyond the range of their types.                          *)
(***************************************************************************)
MaxParseLines == 3

LineEmpty == ""
LineFewTokens == "0:00:00.100000000 1234"
\* An hour beyond u64.
LineHourBeyondRange ==
    "99999999999999999999:00:00.000000000 1234 0x7f00 DEBUG videodecoder gstvideodecoder.c:1:gst_video_decoder_drain:<dec0> frame"
\* An hour of 2^51: a u64, and 2^51 * 3600 seconds are 9 * 5^11 * 2^64 ns.
LineHourOverflow ==
    "2251799813685248:00:00.000000007 1234 0x7f00 DEBUG videodecoder gstvideodecoder.c:1:gst_video_decoder_drain:<dec0> frame"
\* A subsecond beyond u64.
LineSubSecondBeyondRange ==
    "0:00:00.99999999999999999999 1234 0x7f00 DEBUG videodecoder gstvideodecoder.c:1:gst_video_decoder_drain:<dec0> frame"
\* A pid beyond u32.
LinePidBeyondRange ==
    "0:00:00.100000000 4294967296 0x7f00 DEBUG videodecoder gstvideodecoder.c:1:gst_video_decoder_drain:<dec0> frame"
\* A line number beyond u32.
LineNumberBeyondRange ==
    "0:00:00.100000000 1234 0x7f00 DEBUG videodecoder gstvideodecoder.c:4294967296:gst_video_decoder_drain:<dec0> frame"

ParseLines ==
    {LineDebug, LineWarn, LineEmpty, LineFewTokens, LineHourBeyondRange, LineHourOverflow,
     LineSubSecondBeyondRange, LinePidBeyondRange, LineNumberBeyondRange}

ParseFiles == SeqsUpTo(ParseLines, MaxParseLines)

\* The state upload_log leaves: the file written, its task spawned and the
\* session id returned.
InitParse ==
    /\ parsed_logs = EmptyMap
    /\ \E file \in ParseFiles :
          /\ temp_files = write_file(EmptyMap, TheSession, file)
          /\ response = [op |-> "upload_log", q |-> << file >>, out |-> UploadOk(TheSession)]
    /\ tasks = {TheSession}
    /\ task_results = EmptyMap
    /\ lock = Uncontended
    /\ minted = 1
    /\ overflow_checks \in BOOLEAN
    /\ client = ClientIdle

NextParse == parse_log_file(TheSession, "ok") /\ UNCHANGED client

SpecParse == InitParse /\ [][NextParse]_vars

(***************************************************************************)
(* SpecEntry: Entry::new applied to one log line, put together from a      *)
(* level token, a location token and what follows the location token.      *)
(***************************************************************************)
\* Level tokens: the names parse_debug_level knows, the name WARNING, and
\* names in other letter cases.
LevelTokens ==
    {"ERROR", "WARN", "WARNING", "FIXME", "INFO", "DEBUG", "LOG", "TRACE", "MEMDUMP",
     "debug", "Debug", "Warn", "error", "NONE"}

\* Location tokens: with a bracketed object, with an empty object part,
\* with empty brackets, with an object part that has no, one or doubled
\* brackets or a colon; without the object part, without the function
\* part, without the line part; with a line part that is no number.
LocationTokens ==
    {"gstpad.c:42:gst_pad_push:<pad0>", "gstpad.c:42:gst_pad_push:",
     "gstpad.c:42:gst_pad_push:<>", "gstpad.c:42:gst_pad_push:pad0",
     "gstpad.c:42:gst_pad_push:<pad0", "gstpad.c:42:gst_pad_push:<<pad0>>",
     "gstpad.c:42:gst_pad_push:<pad:0>", "gstpad.c:42:gst_pad_push",
     "gstpad.c:42", "gstpad.c", "gstpad.c:4x2:gst_pad_push:<pad0>",
     "gstpad.c::gst_pad_push:<pad0>"}

\* What follows the location token: nothing, a message after one space,
\* after two spaces, with two spaces inside, with a space at its end.
MessageTails ==
    {"", " push failed", "  push failed", " push  failed", " push failed ", "   "}

EntryLine(level, location, tail) ==
    "0:00:00.001500000 1234 0x7f00 " \o level \o " GST_PADS " \o location \o tail

EntryClients ==
    {Client("ready", "Entry::new",
            [level |-> l, location |-> loc, tail |-> t, line |-> EntryLine(l, loc, t)],
            0, 0, << >>) :
        l \in LevelTokens, loc \in LocationTokens, t \in MessageTails}

InitEntry ==
    /\ parsed_logs = EmptyMap
    /\ temp_files = EmptyMap
    /\ tasks = {}
    /\ task_results = EmptyMap
    /\ lock = Uncontended
    /\ minted = 0
    /\ response = NoResponse
    /\ overflow_checks \in BOOLEAN
    /\ client \in EntryClients

\* One call of Entry::new, its result kept as the response.
Tokenize ==
    /\ client.state = "ready" /\ client.op = "Entry::new"
    /\ response' = [op |-> "Entry::new", q |-> client.q,
                    out |-> Entry_new(client.q.line, overflow_checks)]
    /\ client' = [client EXCEPT !.state = "done"]
    /\ UNCHANGED server

NextEntry == Tokenize

SpecEntry == InitEntry /\ [][NextEntry]_vars

(***************************************************************************)
(* SpecPage: one large session and one client, which either sends one      *)
(* query with any page number and page size, or reads the pages 1, 2, ...  *)
(* of a query one after the other.                                         *)
(***************************************************************************)
MaxSmallTotal == 4
MaxPage == 4
MaxSmallPerPage == 3

\* The i-th line of the large file; the pids alternate.
PageLine(i) ==
    "0:00:00.000000000 " \o (IF i % 2 = 1 THEN "1234" ELSE "5678")
        \o " 0x7f00 LOG videodecoder gstvideodecoder.c:" \o ToString(i)
        \o ":gst_video_decoder_drain: drain frame"

\* parse() of the file PageLine(1), ..., PageLine(n), all of which parse.
PageSession(n) == [i \in 1..n |-> Entry_new(PageLine(i), TRUE).val]

PageTotals == (0..MaxSmallTotal) \cup {MAX_PER_PAGE + 1}

PageFilters == {[NoCriteria EXCEPT !.pid = p] : p \in PidValues}

PageValues == {None} \cup {Some(p) : p \in 0..MaxPage}

PerPageValues ==
    {None} \cup {Some(s) : s \in (0..MaxSmallPerPage)
                     \cup {MAX_PER_PAGE, MAX_PER_PAGE + 1, 5 * MAX_PER_PAGE}}

PageClients ==
    {Client("ready", "get_logs", Query(Some(TheSession), f, page, per_page, None),
            0, 0, << >>) :
        f \in PageFilters, page \in PageValues, per_page \in PerPageValues}
    \cup
    {Client("ready", "sweep", Query(Some(TheSession), f, None, per_page, None),
            0, 0, << >>) :
        f \in PageFilters, per_page \in PerPageValues}

InitPage ==
    /\ \E n \in PageTotals :
           parsed_logs = insert_session(EmptyMap, TheSession, PageSession(n))
    /\ temp_files = EmptyMap
    /\ tasks = {}
    /\ task_results = EmptyMap
    /\ lock = Uncontended
    /\ minted = 1
    /\ response = NoResponse
    /\ overflow_checks \in BOOLEAN
    /\ client \in PageClients

\* The query of the client with the page number n.
PageQuery(n) == [client.q EXCEPT !.page = Some(n)]

\* The client after the answer out to its request for page n: the entries
\* are appended to those read so far; total_pages is read from the first
\* answer; an answer that is no page at all ends the reading.
AfterPage(n, out) ==
    IF out.kind /= "ok" THEN [client EXCEPT !.state = "failed", !.next = n]
    ELSE LET total_pages == IF n = 1 THEN out.total_pages ELSE client.total_pages
         IN [client EXCEPT !.state = IF n + 1 > total_pages THEN "done" ELSE "sweeping",
                           !.next = n + 1,
                           !.total_pages = total_pages,
                           !.acc = client.acc \o out.entries]

\* The client asks for page 1.
SweepStart ==
    /\ client.state = "ready" /\ client.op = "sweep"
    /\ GetLogs(PageQuery(1))
    /\ client' = AfterPage(1, get_logs(parsed_logs, PageQuery(1), overflow_checks))

\* The client asks for the next page, up to page total_pages.
SweepNext ==
    /\ client.state = "sweeping"
    /\ GetLogs(PageQuery(client.next))
    /\ client' = AfterPage(client.next,
                           get_logs(parsed_logs, PageQuery(client.next), overflow_checks))

NextPage == ClientGetLogs \/ SweepStart \/ SweepNext

SpecPage == InitPage /\ [][NextPage]_vars

(***************************************************************************)
(* What the specification says of a query, in its own terms.               *)
(***************************************************************************)
\* The timestamp of an entry in the unit the caller asked for.
InUnit(entry, f) ==
    IF f.use_microseconds THEN entry.ts \div 1000 ELSE entry.ts \div 1000000

\* Criterion c of the filter specification f, which sets it, holds of entry.
CriterionHolds(c, entry, f) ==
    CASE c = "level" -> DebugFmt(entry.level) = Unwrap(f.level)
      [] c = "categories" ->
            \E i \in 1..Len(f.categories) : Trim(f.categories[i]) = Trim(entry.category)
      [] c = "message_regex" ->
            Regex_new(Unwrap(f.message_regex)).ok
                => is_match(Unwrap(f.message_regex), entry.message)
      [] c = "pid" -> entry.pid = Unwrap(f.pid)
      [] c = "thread" -> entry.thread = Unwrap(f.thread)
      [] c = "object" -> entry.object = Some(Unwrap(f.object))
      [] c = "function_regex" ->
            Regex_new(Unwrap(f.function_regex)).ok
                => is_match(Unwrap(f.function_regex), entry.function)
      [] c = "min_timestamp" -> Unwrap(f.min_timestamp) <= InUnit(entry, f)
      [] c = "max_timestamp" -> InUnit(entry, f) <= Unwrap(f.max_timestamp)

Satisfies(entry, f) == \A c \in Present(f) : CriterionHolds(c, entry, f)

\* The filtered sequence of the session of SpecFilter and SpecPage.
Matching(f) == SelectSeq(parsed_logs[TheSession], LAMBDA entry : Satisfies(entry, f))

\* The page and page size in effect.
EffectivePage(q) ==
    IF ~IsSome(q.page) THEN 1
    ELSE IF Unwrap(q.page) = 0 THEN 1 ELSE Unwrap(q.page)

EffectivePageSize(q) ==
    IF ~IsSome(q.per_page) THEN 100
    ELSE IF Unwrap(q.per_page) > 1000 THEN 1000 ELSE Unwrap(q.per_page)

\* ceil(total / s), s > 0
Ceil(total, s) == CHOOSE n \in 0..total : n * s >= total /\ (n > 0 => (n - 1) * s < total)

\* The entries F[lo .. hi), upper bound exclusive, positions counted from 0.
Range(F, lo, hi) == [i \in 1..(IF hi > lo THEN hi - lo ELSE 0) |-> F[lo + i]]

Answered == response.op = "get_logs"

(***************************************************************************)
(* Pagination (SpecPage)                                                   *)
(***************************************************************************)
\* C1: for every filtered sequence and every page size, 0 and sizes above
\* 1000 included, the entries returned for the pages 1, ..., total_pages,
\* one after the other, are exactly the filtered sequence: every page is
\* answered, and once the last one is read nothing is missing, repeated or
\* out of order.
C1_PagesReassemble ==
    client.op = "sweep" =>
        /\ client.state /= "failed"
        /\ client.state = "done" =>
               client.acc = MapSerializable(Matching(client.q))

\* C2: a request for a page beyond total_pages is answered, with an empty
\* list of entries, the size of the filtered sequence as total, and
\* total_pages.
C2_PageBeyondLast ==
    Answered =>
        LET q == response.q
            total == Len(Matching(q))
            s == EffectivePageSize(q)
        IN  (s > 0 /\ EffectivePage(q) > Ceil(total, s)) =>
                /\ response.out.kind = "ok"
                /\ response.out.entries = << >>
                /\ response.out.total = total
                /\ response.out.total_pages = Ceil(total, s)

\* C3: get_logs returns the entries F[(p-1)*s .. min(total, p*s)) of the
\* filtered sequence F, in order, for the effective page p and page size s,
\* and the field page of the response is p.
C3_PageSlice ==
    Answered =>
        LET q == response.q
            F == Matching(q)
            p == EffectivePage(q)
            s == EffectivePageSize(q)
        IN  /\ response.out.kind = "ok"
            /\ response.out.page = p
            /\ response.out.entries =
                   MapSerializable(Range(F, (p - 1) * s, Min2(Len(F), p * s)))

\* C4: for every filter and every page size, total in the response is the
\* number of entries of the session that satisfy the filter, whatever the
\* page and page size, and total_pages is ceil(total / page size).
C4_TotalAndTotalPages ==
    Answered =>
        LET q == response.q
            total == Len(Matching(q))
            s == EffectivePageSize(q)
        IN  /\ response.out.kind = "ok"
            /\ response.out.total = total
            /\ s > 0 => response.out.total_pages = Ceil(total, s)

\* C5: the paging parameters are normalised before slicing: the request is
\* answered as the same request with page 0 replaced by 1, a page size above
\* 1000 by 1000, an omitted page by 1 and an omitted page size by 100; the
\* response names the normalised page and holds at most 1000 entries, and
\* no more than the normalised page size.
C5_PagingNormalised ==
    Answered =>
        LET q == response.q
            normalised == [q EXCEPT !.page = Some(EffectivePage(q)),
                                    !.per_page = Some(EffectivePageSize(q))]
        IN  /\ response.out = get_logs(parsed_logs, normalised, overflow_checks)
            /\ response.out.kind = "ok" =>
                   /\ response.out.page = EffectivePage(q)
                   /\ Len(response.out.entries) <= 1000
                   /\ Len(response.out.entries) <= EffectivePageSize(q)
                   /\ response.out.total_pages =
                          Ceil(response.out.total, EffectivePageSize(q))

\* A request for page 0 with page size 5000 of more than 1000 entries is
\* answered with the first 1000.
C5_Witness ==
    /\ Answered
    /\ response.q.page = Some(0)
    /\ response.q.per_page = Some(5 * MAX_PER_PAGE)
    /\ response.out.kind = "ok"
    /\ response.out.total = MAX_PER_PAGE + 1
    /\ response.out.page = 1
    /\ Len(response.out.entries) = 1000
    /\ response.out.entries[1000] = SerializableEntry_from(parsed_logs[TheSession][1000])

(***************************************************************************)
(* Filtering (SpecFilter)                                                  *)
(***************************************************************************)
\* C6: the filtered set of get_logs is the subsequence, in the stored
\* order, of the entries that satisfy every criterion the specification
\* sets; with no criterion set it is the whole stored sequence.
C6_FilteredSubsequence ==
    Answered =>
        LET q == response.q IN
        /\ response.out.kind = "ok"
        /\ response.out.total = Len(Matching(q))
        /\ response.out.entries = MapSerializable(Matching(q))
        /\ Present(q) = {} =>
               response.out.entries = MapSerializable(parsed_logs[TheSession])

\* Two criteria are set; of two stored entries the first fails one of them
\* and the second, which satisfies both, is the answer.
C6_Witness ==
    /\ Answered
    /\ Cardinality(Present(response.q)) = 2
    /\ Len(parsed_logs[TheSession]) = 2
    /\ ~Satisfies(parsed_logs[TheSession][1], response.q)
    /\ \E c \in Present(response.q) :
           CriterionHolds(c, parsed_logs[TheSession][1], response.q)
    /\ response.out.entries = << SerializableEntry_from(parsed_logs[TheSession][2]) >>

\* The pattern is supplied and does not compile.
Uncompilable(pattern) == IsSome(pattern) /\ ~Regex_new(Unwrap(pattern)).ok

\* The request tq answered as out by handler is answered as tq without
\* its message_regex (function_regex) when that pattern does not compile.
AsIfOmitted(tq, out, handler(_)) ==
    /\ Uncompilable(tq.message_regex) =>
           /\ out.kind = "ok"
           /\ out = handler([tq EXCEPT !.message_regex = None])
    /\ Uncompilable(tq.function_regex) =>
           /\ out.kind = "ok"
           /\ out = handler([tq EXCEPT !.function_regex = None])

\* C8: a message_regex or function_regex that does not compile does not
\* reject the request and restricts nothing: get_logs and get_timeline
\* answer as they answer the same request without that criterion.
C8_UncompilableRegexOmitted ==
    /\ response.op = "get_logs" =>
           AsIfOmitted(response.q, response.out,
                       LAMBDA tq : get_logs(parsed_logs, tq, overflow_checks))
    /\ response.op = "get_timeline" =>
           AsIfOmitted(response.q, response.out,
                       LAMBDA tq : get_timeline(parsed_logs, tq, overflow_checks))

\* message_regex does not compile and pid is set: of two entries the one
\* with another pid is dropped, the other one is returned.
C8_Witness ==
    /\ Answered
    /\ Uncompilable(response.q.message_regex)
    /\ Present(response.q) = {"message_regex", "pid"}
    /\ Len(parsed_logs[TheSession]) = 2
    /\ response.out.entries = << SerializableEntry_from(parsed_logs[TheSession][1]) >>

\* The sequence of the level scenario: the entry of the DEBUG line, then
\* one of level ERROR.
LevelScenarioEntries == parse(<< LineDebug, LineError >>, TRUE).val
LevelScenario == parsed_logs[TheSession] = LevelScenarioEntries

\* min <= t <= max for each bound that is set, t in the unit of the flag.
InBounds(entry, q) ==
    LET t == IF q.use_microseconds THEN entry.ts \div 1000 ELSE entry.ts \div 1000000
    IN  /\ IsSome(q.min_timestamp) => Unwrap(q.min_timestamp) <= t
        /\ IsSome(q.max_timestamp) => t <= Unwrap(q.max_timestamp)

\* C9: with no criterion other than the timestamp bounds, get_logs keeps
\* exactly the entries with min <= t <= max for each bound that is set, t
\* being the nanoseconds divided by 1000 when use_microseconds is set and
\* by 1000000 otherwise; with no bound set nothing is removed.
C9_TimestampBounds ==
    (Answered /\ Present(response.q) \subseteq {"min_timestamp", "max_timestamp"}) =>
        LET q == response.q
            kept == SelectSeq(parsed_logs[TheSession], LAMBDA entry : InBounds(entry, q))
        IN  /\ response.out.entries = MapSerializable(kept)
            /\ Present(q) = {} =>
                   response.out.total = Len(parsed_logs[TheSession])

\* Microseconds and max_timestamp 1500: the entry at 123456 us is dropped and
\* the entry at exactly 1500 us (1 ms) is kept.
C9_Witness ==
    /\ Answered
    /\ response.q.use_microseconds
    /\ Present(response.q) = {"max_timestamp"}
    /\ response.q.max_timestamp = Some(1500)
    /\ LevelScenario
    /\ response.out.entries = << SerializableEntry_from(parsed_logs[TheSession][2]) >>

\* The request of the scenario with the level written as name.
LevelRequest(name) ==
    /\ Answered
    /\ Present(response.q) = {"level", "pid"}
    /\ response.q.level = Some(name)
    /\ response.q.pid = Some(1234)

\* C10, as stated: the level criterion compares with the name of the level
\* as the log line writes it: {level: "DEBUG", pid: 1234} on the entry of
\* the DEBUG line with pid 1234 and an entry of level ERROR returns only the
\* first.
C10_LevelAsInLogLine ==
    (LevelRequest("DEBUG") /\ LevelScenario) =>
        response.out.entries = << SerializableEntry_from(parsed_logs[TheSession][1]) >>

VariantNames ==
    {"Error", "Warning", "Fixme", "Info", "Debug", "Log", "Trace", "Memdump"}

\* C10, amended: the level criterion is an exact match with the name of
\* the level's variant (Error, Warning, Fixme, Info, Debug, Log, Trace,
\* Memdump), the name the responses carry: every entry returned carries the
\* requested name, any other string returns nothing, a filter of level only
\* returns every entry of that name, and {level: "Debug", pid: 1234} on the
\* scenario's sequence returns only the first entry.
C10_LevelMatchesVariantName ==
    (Answered /\ IsSome(response.q.level)) =>
        LET q == response.q
            name == Unwrap(q.level)
            entries == parsed_logs[TheSession]
        IN  /\ \A i \in 1..Len(response.out.entries) :
                   response.out.entries[i].level = name
            /\ name \notin VariantNames => response.out.entries = << >>
            /\ Present(q) = {"level"} =>
                   response.out.total =
                       Cardinality({i \in 1..Len(entries) :
                                       DebugFmt(entries[i].level) = name})
            /\ (LevelRequest("Debug") /\ LevelScenario) =>
                   response.out.entries = << SerializableEntry_from(entries[1]) >>

C10_Witness ==
    /\ LevelRequest("Debug")
    /\ LevelScenario
    /\ response.out.total = 1
    /\ response.out.entries[1].level = "Debug"
    /\ response.out.entries[1].message = "some message"

(***************************************************************************)
(* Queries and the session table (Spec)                                    *)
(***************************************************************************)
Queries == {"get_logs", "get_timeline", "get_filter_options"}

\* A step in which a query is answered.
QueryStep ==
    /\ response'.op \in Queries
    /\ \/ response'.op /= response.op
       \/ response'.q /= response.q
       \/ response'.out /= response.out

\* The answer to the last get_logs request, given when its session was in
\* the table (or for no session at all), is the answer the same request
\* gets now.
SameAnswerNow ==
    (Answered /\ (response.out.kind = "ok" \/ response.out.status = 400)) =>
        response.out = get_logs(parsed_logs, response.q, overflow_checks)

\* C7: queries are read-only and repeatable: no get_logs, get_timeline or
\* get_filter_options step changes the session table (or the files and
\* tasks of the ingestion), and a get_logs request repeated against the
\* same session gets the answer it got, whatever uploads, ingestions of
\* other sessions and queries happened in between.
C7_ReadOnlyRepeatable ==
    /\ [](SameAnswerNow)
    /\ [][QueryStep => UNCHANGED << parsed_logs, temp_files, tasks, minted >>]_vars

\* A get_logs request of the first session is answered with its two
\* entries, and the table holds a second session with other entries.
C7_Witness ==
    /\ Answered
    /\ response.q.session_id = Some(Uuid(1))
    /\ response.out.kind = "ok"
    /\ response.out.total = 2
    /\ Uuid(2) \in DOMAIN parsed_logs
    /\ parsed_logs[Uuid(2)] /= parsed_logs[Uuid(1)]
    /\ tasks = {}

(***************************************************************************)
(* Timeline claims (SpecTimeline).                                         *)
(***************************************************************************)
\* The interval string of a timeline request, the default when omitted.
IntervalOf(q) == IF IsSome(q.interval) THEN Unwrap(q.interval) ELSE "1s"

\* s is a decimal number followed by one of the units us, ms, s, m.
InGrammar(s) ==
    \E k \in 1..Len(s) :
        /\ AllDigits(SubSeq(s, 1, k))
        /\ SubSeq(s, k + 1, Len(s)) \in {"us", "ms", "s", "m"}

\* The criteria the timeline applies: all but the timestamp bounds.
TimelineCriteria(q) == Present(q) \ {"min_timestamp", "max_timestamp"}

\* The entries of the session that pass the timeline's filter.
TimelineMatching(q) ==
    SelectSeq(parsed_logs[TheSession],
              LAMBDA entry : \A c \in TimelineCriteria(q) : CriterionHolds(c, entry, q))

InMicroseconds(q) ==
    LET s == IntervalOf(q) IN Len(s) >= 2 /\ SubSeq(s, Len(s) - 1, Len(s)) = "us"

\* The timestamp of entry in the unit of the response: microseconds when the
\* interval is given in microseconds, milliseconds otherwise.
InIntervalUnit(entry, q) ==
    IF InMicroseconds(q) THEN entry.ts \div 1000 ELSE entry.ts \div 1000000

\* The width of the interval (of the grammar) in the unit of the response.
WidthInUnit(q) ==
    LET s == IntervalOf(q)
        k == CHOOSE k \in 1..Len(s) : AllDigits(SubSeq(s, 1, k))
                                      /\ SubSeq(s, k + 1, Len(s)) \in {"us", "ms", "s", "m"}
        n == DigitsValue(SubSeq(s, 1, k), 0)
        unit == SubSeq(s, k + 1, Len(s))
    IN CASE unit = "us" -> n
         [] unit = "ms" -> n
         [] unit = "s"  -> n * 1000
         [] unit = "m"  -> n * 60000

RECURSIVE SumCounts(_)
SumCounts(buckets) ==
    IF buckets = << >> THEN 0 ELSE Head(buckets).count + SumCounts(Tail(buckets))

TimelineAnswered == response.op = "get_timeline" /\ response.out.kind = "ok"

\* C11: in every timeline response the bucket counts add up to the number of
\* filtered entries, every bucket holds at least one entry, and the buckets
\* are in strictly ascending order of their timestamps.
C11_BucketsPartitionFiltered ==
    TimelineAnswered =>
        LET buckets == response.out.buckets IN
        /\ SumCounts(buckets) = Len(TimelineMatching(response.q))
        /\ \A i \in 1..Len(buckets) : buckets[i].count >= 1
        /\ \A i \in 1..(Len(buckets) - 1) : buckets[i].timestamp < buckets[i + 1].timestamp

C11_Witness ==
    /\ TimelineAnswered
    /\ Len(response.out.buckets) >= 2
    /\ Len(TimelineMatching(response.q)) < Len(parsed_logs[TheSession])

TimelineScenarioEntries == parse(<< LineAt0, LineAt400, LineAt900 >>, TRUE).val

\* Entries at 0 ms, 400 ms and 900 ms, no criterion, interval "500ms".
TimelineScenario ==
    /\ response.op = "get_timeline"
    /\ response.q.interval = Some("500ms")
    /\ response.q.session_id = Some(TheSession)
    /\ Present(response.q) = {}
    /\ parsed_logs[TheSession] = TimelineScenarioEntries

\* C12: every filtered entry is counted in the bucket that starts at
\* min_timestamp + floor((t - min_timestamp) / interval) * interval, all in
\* the unit of the response, so that bucket start <= t < bucket start +
\* interval; entries at 0, 400 and 900 ms with "500ms" give (0, 2), (500, 1).
C12_BucketOfEntry ==
    /\ TimelineAnswered =>
        LET q       == response.q
            M       == TimelineMatching(q)
            buckets == response.out.buckets
            min     == response.out.min_timestamp
            start(i) == min + ((InIntervalUnit(M[i], q) - min) \div WidthInUnit(q)) * WidthInUnit(q)
        IN
        /\ \A i \in 1..Len(M) :
              /\ \E b \in 1..Len(buckets) : buckets[b].timestamp = start(i)
              /\ start(i) <= InIntervalUnit(M[i], q)
              /\ InIntervalUnit(M[i], q) < start(i) + WidthInUnit(q)
        /\ \A b \in 1..Len(buckets) :
              buckets[b].count = Cardinality({i \in 1..Len(M) : start(i) = buckets[b].timestamp})
    /\ TimelineScenario =>
        /\ response.out.kind = "ok"
        /\ response.out.buckets = << [timestamp |-> 0, count |-> 2],
                                     [timestamp |-> 500, count |-> 1] >>

C12_Witness ==
    /\ TimelineScenario
    /\ TimelineAnswered
    /\ Len(response.out.buckets) = 2

\* The span of the filtered entries in the unit given by unit(entry, q); 0
\* and 0 with no bucket when no entry passes.
SpanIs(unit(_, _)) ==
    LET q == response.q
        M == TimelineMatching(q)
        T == {unit(M[i], q) : i \in 1..Len(M)}
    IN
    IF M = << >>
    THEN /\ response.out.min_timestamp = 0
         /\ response.out.max_timestamp = 0
         /\ response.out.buckets = << >>
    ELSE /\ response.out.min_timestamp \in T
         /\ response.out.max_timestamp \in T
         /\ \A t \in T : response.out.min_timestamp <= t /\ t <= response.out.max_timestamp

\* C13 (as stated): min_timestamp and max_timestamp are the least and the
\* greatest timestamp of the filtered entries in the unit the caller selects
\* (use_microseconds), both 0 with no bucket when no entry passes.
C13_SpanInSelectedUnit == TimelineAnswered => SpanIs(InUnit)

\* C13 (as the code has it): min_timestamp and max_timestamp are the least
\* and the greatest timestamp of the filtered entries, in microseconds when
\* the interval string ends in "us" and in milliseconds otherwise, whatever
\* use_microseconds says; both 0 with no bucket when no entry passes.
C13_SpanInIntervalUnit == TimelineAnswered => SpanIs(InIntervalUnit)

C13_Witness ==
    /\ TimelineAnswered
    /\ InMicroseconds(response.q)
    /\ ~response.q.use_microseconds
    /\ response.out.min_timestamp = 400000
    /\ response.out.max_timestamp = 900500

\* C14: an interval string that is not of the grammar is rejected with the
\* invalid-interval failure, no bucket list is returned, and the rejection
\* is decided before any entry of the session has been worked on.
C14_IntervalRejectedFirst ==
    (response.op = "get_timeline" /\ ~InGrammar(IntervalOf(response.q))) =>
        /\ response.out.kind = "error"
        /\ response.out.status = 400
        /\ SubSeq(response.out.message, 1, 16) = "Invalid interval"
        /\ response.out.buckets = << >>
        /\ response.out.scanned = 0

\* The specification q with its object criterion taken out.
WithoutObject(q) == [q EXCEPT !.object = None]

\* The entries the object criterion of q keeps: those that have an object
\* value, and it equals the criterion string.
ObjectKept(entries, q) ==
    SelectSeq(entries, LAMBDA entry : /\ IsSome(entry.object)
                                      /\ Unwrap(entry.object) = Unwrap(q.object))

\* C24: when the object criterion is present an entry passes it iff it has
\* an object value equal to the criterion string, and an entry without
\* object value is excluded whatever the criterion string is: of the
\* entries that pass the other criteria, get_logs returns, and get_timeline
\* counts, exactly those with that object value.
C24_ObjectCriterion ==
    (client.state = "done" /\ IsSome(response.q.object)) =>
        LET q == response.q IN
        /\ response.out.kind = "ok"
        /\ response.op = "get_logs" =>
               response.out.entries =
                   MapSerializable(ObjectKept(Matching(WithoutObject(q)), q))
        /\ response.op = "get_timeline" =>
               SumCounts(response.out.buckets) =
                   Len(ObjectKept(TimelineMatching(WithoutObject(q)), q))

\* The object criterion alone, on a session with an entry of that object,
\* one of another object or one without object: the first is returned or
\* counted and no other.
C24_Witness ==
    /\ client.state = "done"
    /\ IsSome(response.q.object)
    /\ Present(response.q) = {"object"}
    /\ Len(parsed_logs[TheSession]) = 2
    /\ Len(ObjectKept(parsed_logs[TheSession], response.q)) = 1
    /\ \E i \in 1..2 : parsed_logs[TheSession][i].object = None
    /\ response.out.kind = "ok"

\* C23: get_timeline buckets the filtered set that get_logs selects: for
\* every filter specification, the timestamp bounds and use_microseconds
\* included, the bucket counts of get_timeline add up to the total that
\* get_logs returns for the same specification.
C23_TimelineCountsLogsTotal ==
    (client.state = "done" /\ client.op = "get_timeline") =>
        LET logs == get_logs(parsed_logs, response.q, overflow_checks).total IN
        /\ response.out.kind = "ok"
        /\ SumCounts(response.out.buckets) = logs

(***************************************************************************)
(* Session table claims (Spec).                                            *)
(***************************************************************************)
\* C15: once a session_id is in the table, its entry sequence is the same in
\* every later state and the key is never removed.
C15_SessionsImmutable ==
    [][\A s \in DOMAIN parsed_logs :
          s \in DOMAIN parsed_logs' /\ parsed_logs'[s] = parsed_logs[s]]_vars

C15_Witness ==
    /\ DOMAIN parsed_logs = {Uuid(1), Uuid(2)}
    /\ Len(parsed_logs[Uuid(1)]) = 2
    /\ Len(parsed_logs[Uuid(2)]) = 1
    /\ response.op = "get_timeline"
    /\ response.q.session_id = Some(Uuid(1))

\* The session id a query asks for (an Option).
SessionAsked(r) == IF r.op = "get_filter_options" THEN r.q ELSE r.q.session_id

SessionNotFound(out) ==
    out.kind = "error" /\ out.status = 404 /\ out.message = "Session not found"

\* C16: a get_logs, get_timeline or get_filter_options request for a
\* session_id that is not in the table is answered SessionNotFound, whether
\* the identifier was never issued or its ingestion has not completed.
C16_UnknownSessionNotFound ==
    [][(/\ QueryStep
        /\ IsSome(SessionAsked(response'))
        /\ Unwrap(SessionAsked(response')) \notin DOMAIN parsed_logs)
          => SessionNotFound(response'.out)]_vars

\* A query answered SessionNotFound while the ingestion of its session is
\* pending.
C16_Witness ==
    /\ response.op = "get_filter_options"
    /\ IsSome(response.q)
    /\ Unwrap(response.q) \in tasks
    /\ SessionNotFound(response.out)

\* Session s has a finished ingestion that failed.
IngestionFailed(results, s) == s \in DOMAIN results /\ results[s] /= "ok"

\* C17: an ingestion that fails (the temporary file cannot be opened or read)
\* leaves the table as it was; its session is absent in every later state,
\* queries for it are answered SessionNotFound, and other sessions and later
\* ingestions are not affected.
C17_FailedIngestionLeavesNoSession ==
    /\ [](\A s \in SessionIds :
            IngestionFailed(task_results, s) =>
                /\ s \notin DOMAIN parsed_logs
                /\ (response.op \in Queries /\ SessionAsked(response) = Some(s))
                      => SessionNotFound(response.out))
    /\ [][(\E s \in SessionIds :
              IngestionFailed(task_results', s) /\ ~IngestionFailed(task_results, s))
            => parsed_logs' = parsed_logs]_vars
    /\ [][(\E s \in SessionIds : IngestionFailed(task_results, s))
            => \A t \in tasks \ tasks' :
                  (t \in DOMAIN task_results' /\ task_results'[t] = "ok")
                     => (t \in DOMAIN parsed_logs'
                         /\ parsed_logs'[t] = parse(temp_files[t], overflow_checks).val)]_vars

\* The first ingestion failed on a read, the second one, later, installed
\* its session, and a query for the first session was answered.
C17_Witness ==
    /\ IngestionFailed(task_results, Uuid(1))
    /\ task_results[Uuid(1)] = "panic"
    /\ Uuid(2) \in DOMAIN parsed_logs
    /\ Len(parsed_logs[Uuid(2)]) = 2
    /\ response.op = "get_logs"
    /\ response.q.session_id = Some(Uuid(1))
    /\ SessionNotFound(response.out)

(***************************************************************************)
(* Locking claim (SpecLock).                                               *)
(***************************************************************************)
\* The task of session t is kept waiting in write().
WriterBlocked(t) == t \in lock.write_queue /\ ~can_write(lock, t, client)

\* C18 (as stated): readers hold the store together, and a writer
\* installing session t is kept waiting only by another writer or by a
\* reader working on t itself, never by a reader working on another
\* session.
C18_ReaderBlocksNoOtherWriter ==
    \A t \in lock.write_queue :
        WriterBlocked(t) =>
            \/ lock.writer /= None
            \/ \E h \in lock.readers : client[h] = Some(t)

\* C18 (as the code has it): one lock guards the whole table.  A write
\* guard is never held together with a read guard, it is granted only when
\* no reader holds the store, whichever session the reader works on, and
\* the table changes only under it; readers hold the store together.
C18_WriterWaitsForAllReaders ==
    /\ [](lock.writer /= None => lock.readers = {})
    /\ [][(lock.writer = None /\ lock'.writer /= None) => lock.readers = {}]_vars
    /\ [][parsed_logs' /= parsed_logs => (lock.writer /= None /\ lock.readers = {})]_vars

\* All handlers hold the store at once, working on the stored session,
\* while the writer of the other session waits.
C18_Witness ==
    /\ lock.readers = Handlers
    /\ \A h \in Handlers : client[h] = Some(Uuid(1))
    /\ Uuid(1) \in DOMAIN parsed_logs
    /\ WriterBlocked(Uuid(2))

\* The entries of each uploaded file, once parsed.
LockEntries == [s \in SessionIds |-> parse(LockFiles[s], TRUE).val]

\* The get_logs answer that shows the whole session s.
WholeSession(out, s) ==
    /\ out.kind = "ok"
    /\ out.total = Len(LockEntries[s])
    /\ out.entries = MapSerializable(LockEntries[s])

\* C22: a query never observes a partially installed session.  Under every
\* interleaving of the ingestions with the queries, a get_logs answer for
\* a session is SessionNotFound or shows the complete final sequence of
\* the session's entries; and from the moment the session is in the table
\* (from which on a query can have seen it) every query for it is answered
\* with that same complete sequence.
C22_NoPartialSession ==
    /\ [](response.op = "get_logs" =>
            \/ SessionNotFound(response.out)
            \/ WholeSession(response.out, Unwrap(response.q.session_id)))
    /\ [][\A h \in Handlers :
            (h \in lock.readers /\ h \notin lock'.readers
                /\ Unwrap(client[h]) \in DOMAIN parsed_logs)
            => WholeSession(response'.out, Unwrap(client[h]))]_vars

\* A query for the two-entry session has been answered with both entries
\* while another handler still reads and the task of the other session
\* waits for the write guard.
C22_Witness ==
    /\ response.op = "get_logs"
    /\ response.q.session_id = Some(Uuid(1))
    /\ WholeSession(response.out, Uuid(1))
    /\ response.out.total = 2
    /\ lock.readers /= {}
    /\ Uuid(2) \in lock.write_queue

(***************************************************************************)
(* Parser claims (SpecParse).                                              *)
(***************************************************************************)
\* The lines of the uploaded file.
Uploaded == response.q[1]

\* Entry::new makes an Entry of the line.
Tokenizes(line) == Entry_new(line, overflow_checks).ok

\* C19: of the N lines of the stream, K of which fail tokenization, parse
\* yields exactly the N - K entries of the other lines, in their order; a
\* failing line is dropped and the stream goes on.
C19_DropsFailingLines ==
    tasks = {} =>
        /\ TheSession \in DOMAIN parsed_logs
        /\ LET entries == parsed_logs[TheSession]
               N       == Len(Uploaded)
               K       == Len(SelectSeq(Uploaded, LAMBDA line : ~Tokenizes(line)))
               kept    == SelectSeq(Uploaded, Tokenizes)
           IN /\ Len(entries) = N - K
              /\ \A i \in 1..Len(entries) :
                    entries[i] = Entry_new(kept[i], overflow_checks).val

ParsingErrorKinds ==
    {"InvalidDebugLevel", "InvalidTimestamp", "MissingToken", "InvalidPID",
     "MissingLocation", "InvalidLineNumber"}

\* C20: Entry::new is total: for every line it returns an Entry or one of
\* the ParsingErrors, it does not panic and its arithmetic does not
\* overflow (a build that checks overflow has nothing to report).
C20_TokenizerTotal ==
    tasks = {} =>
        \A line \in {Uploaded[i] : i \in 1..Len(Uploaded)} :
            LET r == Entry_new(line, overflow_checks) IN
            /\ ~IsPanic(r)
            /\ ~r.ok => r.err.kind \in ParsingErrorKinds
            /\ ~IsPanic(Entry_new(line, TRUE))


(***************************************************************************)
(* Tokenizer claims (SpecEntry).                                           *)
(***************************************************************************)
\* Entry::new has returned.
Tokenized == client.state = "done" /\ client.op = "Entry::new"

\* The level a table of names gives to a token.
LevelNamed(table, token) == (CHOOSE pair \in table : pair[1] = token)[2]

\* The result for a level token under a table of <<name, level>> pairs:
\* a name of the table is accepted as its level (the entry, if the rest of
\* the line makes one, has that level, and the line never fails as an
\* invalid level); every other token fails as InvalidDebugLevel with the
\* token.
LevelTokenUnder(table) ==
    Tokenized =>
        LET token == client.q.level
            r     == response.out
        IN IF token \in {pair[1] : pair \in table}
           THEN IF r.ok THEN r.val.level = LevelNamed(table, token)
                ELSE r.err.kind /= "InvalidDebugLevel"
           ELSE ~r.ok /\ r.err = ParsingError("InvalidDebugLevel", token, "")

EnumerationNames ==
    {<< "ERROR", "DebugLevel::Error" >>, << "WARNING", "DebugLevel::Warning" >>,
     << "FIXME", "DebugLevel::Fixme" >>, << "INFO", "DebugLevel::Info" >>,
     << "DEBUG", "DebugLevel::Debug" >>, << "LOG", "DebugLevel::Log" >>,
     << "TRACE", "DebugLevel::Trace" >>, << "MEMDUMP", "DebugLevel::Memdump" >>}

LogLineNames ==
    (EnumerationNames \ {<< "WARNING", "DebugLevel::Warning" >>})
        \cup {<< "WARN", "DebugLevel::Warning" >>}

\* C21 as stated: a level token is accepted iff it is, case-sensitively,
\* one of ERROR, WARNING, FIXME, INFO, DEBUG, LOG, TRACE, MEMDUMP, and is
\* mapped to the level of that name; every other token yields
\* InvalidDebugLevel with the token.
C21_EnumerationNamesAccepted == LevelTokenUnder(EnumerationNames)

\* C21: a level token is accepted iff it is, case-sensitively, one of ERROR,
\* WARN, FIXME, INFO, DEBUG, LOG, TRACE, MEMDUMP (the warning level is
\* written WARN), and is mapped to the level of that name; every other
\* token, WARNING among them, yields InvalidDebugLevel with the token.
C21_LogLineNamesAccepted == LevelTokenUnder(LogLineNames)

\* A WARN line has become an entry of level Warning, a WARNING line and a
\* line with a lower-case name have failed as invalid levels.
C21_Witness ==
    /\ Tokenized
    /\ \/ client.q.level = "WARN" /\ response.out.ok
          /\ response.out.val.level = "DebugLevel::Warning"
       \/ client.q.level \in {"WARNING", "debug"} /\ ~response.out.ok
          /\ response.out.err.kind = "InvalidDebugLevel"


\* The level token is one parse_debug_level accepts, so that Entry::new
\* goes on to the location token.
ReachesLocation == client.q.level \in {pair[1] : pair \in LogLineNames}

\* An object part <name> with a name that is not empty.
Bracketed(segment) ==
    /\ Len(segment) > 2
    /\ CharAt(segment, 1) = "<"
    /\ CharAt(segment, Len(segment)) = ">"

\* C25: for a location token file:line:function:segment the entry's object
\* is Some(name) exactly when the segment is a bracketed name <name> with a
\* name that is not empty (the brackets removed), and None when the
\* segment is empty; a location without a fourth part fails as
\* MissingToken and a line part that is no number as InvalidLineNumber.
C25_ObjectOfLocation ==
    (Tokenized /\ ReachesLocation) =>
        LET parts == SplitN(client.q.location, ":", 4)
            r     == response.out
        IN IF Len(parts) >= 2 /\ (parts[2] = "" \/ ~AllDigits(parts[2]))
           THEN ~r.ok /\ r.err.kind = "InvalidLineNumber"
           ELSE IF Len(parts) < 4
           THEN ~r.ok /\ r.err.kind = "MissingToken"
           ELSE /\ r.ok
                /\ IsSome(r.val.object) <=> Bracketed(parts[4])
                /\ Bracketed(parts[4]) =>
                       r.val.object = Some(SubSeq(parts[4], 2, Len(parts[4]) - 1))
                /\ parts[4] = "" => r.val.object = None


\* The words of a text: its maximal runs of characters other than spaces.
Words(text) == SelectSeq(Split(text, " "), LAMBDA w : w /= "")

\* The words put in a row with one space between two of them.
RECURSIVE Spaced(_)
Spaced(words) ==
    IF words = << >> THEN ""
    ELSE IF Len(words) = 1 THEN words[1]
    ELSE words[1] \o " " \o Spaced(Tail(words))

\* C26 as stated: the message is the non-empty tokens that follow the
\* location token joined by single spaces: a run of several spaces after
\* the location or inside the message is one space in Entry.message, and
\* the message starts with no space.
C26_MessageSpacesCollapsed ==
    (Tokenized /\ response.out.ok) =>
        response.out.val.message = Spaced(Words(client.q.tail))

\* C26: the message is the text of the line that follows the one space
\* after the location token, character by character: every space of a run
\* is kept, and a second space after the location token starts the message.
C26_MessageVerbatim ==
    (Tokenized /\ response.out.ok) =>
        response.out.val.message = SubSeq(client.q.tail, 2, Len(client.q.tail))

\* An entry whose line has two spaces inside the message or two spaces
\* after the location token.
C26_Witness ==
    /\ Tokenized /\ response.out.ok
    /\ client.q.tail \in {" push  failed", "  push failed"}
    /\ response.out.val.message \in {"push  failed", " push failed"}


(***************************************************************************)
(* Interval claim (SpecInterval).                                          *)
(***************************************************************************)
\* C27: every interval string of the grammar ^\d+(us|ms|s|m)$ leads
\* get_timeline, for an existing session, to a normal response: its
\* microseconds are computed without 64-bit overflow (a build that checks
\* overflow has nothing to report) and bucketing never divides by zero,
\* also for a count of 0 and a filtered set that is not empty.
C27_GrammarIntervalAnswered ==
    (client.state = "done" /\ client.op = "get_timeline"
        /\ InGrammar(IntervalOf(response.q))
        /\ Unwrap(response.q.session_id) \in DOMAIN parsed_logs) =>
        /\ response.out.kind = "ok"
        /\ get_timeline(parsed_logs, response.q, TRUE).kind = "ok"


(***************************************************************************)
(* Upload claim (SpecUpload).                                              *)
(***************************************************************************)
\* upload_log has just returned the session id s to its client.
Returned(s) ==
    /\ response.op = "upload_log"
    /\ response.out.kind = "ok"
    /\ response.out.session_id = s

\* C28: every session id that upload_log returns has had its ingestion
\* task dispatched: with tasks run fairly and no I/O failure the session
\* is eventually in the table, whether the multipart body has no field,
\* one field or several.
C28_ReturnedSessionStored ==
    \A s \in SessionIds : Returned(s) ~> (s \in DOMAIN parsed_logs)

====
